---- MODULE Spec2Model ----
(***************************************************************************)
(* pushpop: a sender (push) that serves one file and its BLAKE3 digest     *)
(* over HTTP, and a receiver (pop) that downloads the file through an      *)
(* event-driven engine, renames the partial file and verifies the digest.  *)
(*                                                                         *)
(*   SpecPush  the sender's hash cache (getBlake3) called by concurrent    *)
(*             request handlers, src/cmd/push/main.go                      *)
(*   FairPush  SpecPush with the scheduler's fairness                      *)
(*   SpecPop   the receiver: main's reconciliation and the download engine *)
(*             (Update), src/cmd/pop/main.go and src/cmd/pop/tui.go        *)
(***************************************************************************)
EXTENDS Integers, Sequences, FiniteSets, Bags, TLC

(***************************************************************************)
(* Bounds of the model.                                                    *)
(***************************************************************************)
\* longest file, in bytes
MaxLen == 2
\* most bytes one Read returns (the code's buffers hold 128 KiB)
MaxChunk == 2
\* longest file the sender's hash cache is run on, in bytes
MaxShared == 1
\* longest partial file found on disk at start, in bytes
MaxPart == 1
\* cancel keys the user presses
MaxKeys == 1
\* concurrent request handlers of the sender
NThreads == 3
\* digest requests the sender receives
MaxReqs == 3

(***************************************************************************)
(* Program constants.                                                      *)
(***************************************************************************)
\* length of a hex BLAKE3 digest: 32 bytes printed with %x
DigestLen == 64

Bytes == {0, 1}
Min(a, b) == IF a < b THEN a ELSE b

\* every byte sequence of length at most n
RECURSIVE SeqsUpTo(_)
SeqsUpTo(n) ==
    IF n = 0 THEN {<<>>}
    ELSE LET shorter == SeqsUpTo(n - 1)
         IN  shorter \cup {Append(s, b) : s \in {x \in shorter : Len(x) = n - 1}, b \in Bytes}

Files == SeqsUpTo(MaxLen)
SharedFiles == SeqsUpTo(MaxShared)
PartFiles == SeqsUpTo(MaxPart)

Prefix(s, n) == SubSeq(s, 1, n)
Suffix(s, n) == SubSeq(s, n + 1, Len(s))

(***************************************************************************)
(* BLAKE3 (github.com/zeebo/blake3), as an incremental hasher.  The hash   *)
(* is modelled as collision free on the bounded inputs: the hasher state   *)
(* is the number whose base-3 digits are a leading 1 followed by the       *)
(* bytes written so far.                                                   *)
(***************************************************************************)
blake3New == 1

RECURSIVE hasherWrite(_, _)
hasherWrite(h, chunk) ==
    IF chunk = <<>> THEN h
    ELSE hasherWrite(3 * h + Head(chunk), Tail(chunk))

\* a string, as far as the programs look at it: its length, whether all of
\* its characters are hex digits, which string of that shape it is, and how
\* much white space surrounds it
Str(len, hex, id) == [len |-> len, hex |-> hex, id |-> id, pad |-> 0]
\* the string followed by a newline
WithNewline(s) == [s EXCEPT !.pad = 1]
EmptyStr == Str(0, TRUE, 0)

\* fmt.Sprintf("%x", hasher.Sum(nil))
hexSum(h) == Str(DigestLen, TRUE, h)

Blake3Hex(content) == hexSum(hasherWrite(blake3New, content))

(***************************************************************************)
(* The sender: hash cache and digest handler.                              *)
(***************************************************************************)
Threads == 1..NThreads
Paths == {"fn"}
NoResult == [none |-> TRUE]
NoCond == 0
Free == 0

\* hashResult{hash, err}
hashResult(h, e) == [hash |-> h, err |-> e]
ZeroResult == hashResult(EmptyStr, "nil")

VARIABLES
    shared,      \* the shared file's bytes, by path
    hashCache,   \* map[string]hashResult; NoResult: no entry
    hashCond,    \* map[string]*sync.Cond; NoCond: no entry, else the cond's id
    hashMu,      \* sync.Mutex: the thread holding it, or Free
    waitq,       \* the conds' notify lists: {<<cond, thread>>}
    pc,          \* each handler's position
    lv,          \* each handler's locals: path, c, file position, hasher, h, err
    ret,         \* what getBlake3 last returned to each handler
    nreq,        \* digest requests received so far
    starts,      \* computeBlake3 invocations, by path
    blocked,     \* handlers that have been parked in c.Wait() during this request
    fault        \* by path: what went wrong while the file was hashed, if anything

pushVars == <<shared, hashCache, hashCond, hashMu, waitq, pc, lv, ret, nreq,
              starts, blocked, fault>>

VARIABLES
    src,         \* the bytes of the file the sender shares
    partFile,    \* the bytes of <name>.part, or NoFile
    finalFile,   \* the bytes of <name>, or NoFile
    mainPc,      \* "start", "run" (inside p.Run), "exited"
    outcome,     \* "none", "declined", "success", "fatal"
    m,           \* the downloadModel
    cmds,        \* bag of the commands issued and not yet run
    msgs,        \* bag of the messages sent and not yet handled
    body,        \* the response body of the file request
    hfile,       \* the file opened for hashing
    keys,        \* cancel keys the user has pressed
    hist         \* what has happened in this run, for stating the claims

popVars == <<src, partFile, finalFile, mainPc, outcome, m, cmds, msgs, body,
             hfile, keys, hist>>

VARIABLES
    entryText,   \* entry.Text: the TXT records of a discovered service
    userRet,     \* what GetUserName returned
    ipsIn,       \* ips: the addresses of a discovered service
    localIfaces, \* what net.Interfaces() gives on this machine
    ipRet        \* what FindMatchingIP returned

discVars == <<entryText, userRet, ipsIn, localIfaces, ipRet>>

vars == <<pushVars, popVars, discVars>>

NoLocals == [path |-> "", c |-> NoCond, pos |-> 0, hasher |-> 0,
             h |-> EmptyStr, err |-> "nil"]

InitPush ==
    /\ shared \in [Paths -> SharedFiles]
    /\ hashCache = [p \in Paths |-> NoResult]
    /\ hashCond = [p \in Paths |-> NoCond]
    /\ hashMu = Free
    /\ waitq = {}
    /\ pc = [t \in Threads |-> "idle"]
    /\ lv = [t \in Threads |-> NoLocals]
    /\ ret = [t \in Threads |-> NoResult]
    /\ nreq = 0
    /\ starts = [p \in Paths |-> 0]
    /\ blocked = {}
    /\ fault = [p \in Paths |-> "none"]

\* sync.NewCond(&hashMu): a cond is identified by the handler that made it (a
\* handler broadcasts on its cond before it can make another one)
NewCond(t) == t

\* mux.HandleFunc("/"+base+".blake3", ...): a request arrives and the handler
\* calls getBlake3(fn); getBlake3 starts with hashMu.Lock()
HandlerStart(t) ==
    /\ pc[t] = "idle"
    /\ nreq < MaxReqs
    /\ \E p \in Paths :
        lv' = [lv EXCEPT ![t] = [NoLocals EXCEPT !.path = p]]
    /\ nreq' = nreq + 1
    /\ pc' = [pc EXCEPT ![t] = "lock"]
    /\ UNCHANGED <<discVars, popVars, shared, hashCache, hashCond, hashMu, waitq, ret, starts, blocked, fault>>

\* hashMu.Lock() at the top of getBlake3
Lock1(t) ==
    /\ pc[t] = "lock"
    /\ hashMu = Free
    /\ hashMu' = t
    /\ pc' = [pc EXCEPT ![t] = "check"]
    /\ UNCHANGED <<discVars, popVars, shared, hashCache, hashCond, waitq, lv, ret, nreq,
                   starts, blocked, fault>>

\* CacheHit without the early return: the entry is found and the code falls
\* through to a new computation
CacheHit_Recompute(t) ==
    /\ pc[t] = "check"
    /\ hashCache[lv[t].path] # NoResult
    /\ lv' = [lv EXCEPT ![t].c = NewCond(t)]
    /\ hashCond' = [hashCond EXCEPT ![lv[t].path] = NewCond(t)]
    /\ hashMu' = Free
    /\ starts' = [starts EXCEPT ![lv[t].path] = @ + 1]
    /\ pc' = [pc EXCEPT ![t] = "open"]
    /\ UNCHANGED <<discVars, popVars, shared, hashCache, waitq, ret, nreq, blocked, fault>>

\* if res, ok := hashCache[path]; ok { hashMu.Unlock(); return res.hash, res.err }
CacheHit(t) ==
    /\ pc[t] = "check"
    /\ hashCache[lv[t].path] # NoResult
    /\ hashMu' = Free
    /\ ret' = [ret EXCEPT ![t] = hashCache[lv[t].path]]
    /\ pc' = [pc EXCEPT ![t] = "respond"]
    /\ UNCHANGED <<discVars, popVars, shared, hashCache, hashCond, waitq, lv, nreq, starts,
                   blocked, fault>>

\* if c, ok := hashCond[path]; ok { c.Wait() ...: Wait puts the caller on the
\* cond's notify list (runtime_notifyListAdd) before it unlocks
WaitAdd(t) ==
    /\ pc[t] = "check"
    /\ hashCache[lv[t].path] = NoResult
    /\ hashCond[lv[t].path] # NoCond
    /\ lv' = [lv EXCEPT ![t].c = hashCond[lv[t].path]]
    /\ waitq' = waitq \cup {<<hashCond[lv[t].path], t>>}
    /\ pc' = [pc EXCEPT ![t] = "waitUnlock"]
    /\ UNCHANGED <<discVars, popVars, shared, hashCache, hashCond, hashMu, ret, nreq,
                   starts, blocked, fault>>

\* c.Wait(): c.L.Unlock(), then the caller is parked
WaitUnlock(t) ==
    /\ pc[t] = "waitUnlock"
    /\ hashMu' = Free
    /\ pc' = [pc EXCEPT ![t] = "parked"]
    /\ blocked' = blocked \cup {t}
    /\ UNCHANGED <<discVars, popVars, shared, hashCache, hashCond, waitq, lv, ret, nreq,
                   starts, fault>>

\* c.Wait(): woken by a Broadcast, the caller takes the lock again
WaitWake(t) ==
    /\ pc[t] = "parked"
    /\ <<lv[t].c, t>> \notin waitq
    /\ hashMu = Free
    /\ hashMu' = t
    /\ pc' = [pc EXCEPT ![t] = "woken"]
    /\ UNCHANGED <<discVars, popVars, shared, hashCache, hashCond, waitq, lv, ret, nreq,
                   starts, blocked, fault>>

\* a map read: the zero value when there is no entry
cacheRead(p) == IF hashCache[p] = NoResult THEN ZeroResult ELSE hashCache[p]

\* res := hashCache[path]; hashMu.Unlock(); return res.hash, res.err
WaitReturn(t) ==
    /\ pc[t] = "woken"
    /\ ret' = [ret EXCEPT ![t] = cacheRead(lv[t].path)]
    /\ hashMu' = Free
    /\ pc' = [pc EXCEPT ![t] = "respond"]
    /\ UNCHANGED <<discVars, popVars, shared, hashCache, hashCond, waitq, lv, nreq, starts,
                   blocked, fault>>

\* Install that forgets hashCond[path] = c
Install_NoCond(t) ==
    /\ pc[t] = "check"
    /\ hashCache[lv[t].path] = NoResult
    /\ hashCond[lv[t].path] = NoCond
    /\ lv' = [lv EXCEPT ![t].c = NewCond(t)]
    /\ hashMu' = Free
    /\ starts' = [starts EXCEPT ![lv[t].path] = @ + 1]
    /\ pc' = [pc EXCEPT ![t] = "open"]
    /\ UNCHANGED <<discVars, popVars, shared, hashCache, hashCond, waitq, ret, nreq, blocked, fault>>

\* c := sync.NewCond(&hashMu); hashCond[path] = c; hashMu.Unlock();
\* then computeBlake3(path) is called
Install(t) ==
    /\ pc[t] = "check"
    /\ hashCache[lv[t].path] = NoResult
    /\ hashCond[lv[t].path] = NoCond
    /\ lv' = [lv EXCEPT ![t].c = NewCond(t)]
    /\ hashCond' = [hashCond EXCEPT ![lv[t].path] = NewCond(t)]
    /\ hashMu' = Free
    /\ starts' = [starts EXCEPT ![lv[t].path] = @ + 1]
    /\ pc' = [pc EXCEPT ![t] = "open"]
    /\ UNCHANGED <<discVars, popVars, shared, hashCache, waitq, ret, nreq, blocked, fault>>

\* computeBlake3: file, err := os.Open(filename); if err != nil { return "", err }
ComputeOpen(t) ==
    /\ pc[t] = "open"
    /\ \/ /\ lv' = [lv EXCEPT ![t].pos = 0, ![t].hasher = blake3New]
          /\ pc' = [pc EXCEPT ![t] = "read"]
          /\ fault' = fault
       \/ /\ lv' = [lv EXCEPT ![t].h = EmptyStr, ![t].err = "open"]
          /\ pc' = [pc EXCEPT ![t] = "lock2"]
          /\ fault' = [fault EXCEPT ![lv[t].path] = "open"]
    /\ UNCHANGED <<discVars, popVars, shared, hashCache, hashCond, hashMu, waitq, ret, nreq,
                   starts, blocked>>

\* what the read loop of computeBlake3 returns once it has left the loop:
\* return fmt.Sprintf("%x", hasher.Sum(nil)), nil
computeBlake3Return(hasher, readErr) == hashResult(hexSum(hasher), "nil")

\* computeBlake3: one turn of the loop; a read of a regular file fills the
\* buffer unless the file ends first
\*   n, err := file.Read(buf); if n > 0 { hasher.Write(buf[:n]) }; if err != nil { break }
ComputeRead(t) ==
    /\ pc[t] = "read"
    /\ LET rest == Suffix(shared[lv[t].path], lv[t].pos)
           leave(e) == LET r == computeBlake3Return(lv[t].hasher, e)
                       IN  /\ lv' = [lv EXCEPT ![t].h = r.hash, ![t].err = r.err]
                           /\ pc' = [pc EXCEPT ![t] = "lock2"]
       IN  \/ /\ rest # <<>>
              /\ LET n == Min(MaxChunk, Len(rest))
                 IN  lv' = [lv EXCEPT ![t].pos = @ + n,
                                      ![t].hasher = hasherWrite(@, Prefix(rest, n))]
              /\ UNCHANGED <<pc, fault>>
           \/ /\ rest = <<>>
              /\ leave("EOF")
              /\ fault' = fault
           \/ /\ leave("read")
              /\ fault' = [fault EXCEPT ![lv[t].path] = "read"]
    /\ UNCHANGED <<discVars, popVars, shared, hashCache, hashCond, hashMu, waitq, ret, nreq,
                   starts, blocked>>

\* hashMu.Lock() after the computation
Lock2(t) ==
    /\ pc[t] = "lock2"
    /\ hashMu = Free
    /\ hashMu' = t
    /\ pc' = [pc EXCEPT ![t] = "publish"]
    /\ UNCHANGED <<discVars, popVars, shared, hashCache, hashCond, waitq, lv, ret, nreq,
                   starts, blocked, fault>>

\* a Broadcast that wakes nobody
Broadcast_Lost(c) == waitq

\* c.Broadcast(): every caller on c's notify list is woken
Broadcast(c) == {e \in waitq : e[1] # c}

\* Publish that forgets delete(hashCond, path)
Publish_KeepsCond(t) ==
    /\ pc[t] = "publish"
    /\ hashCache' = [hashCache EXCEPT ![lv[t].path] = hashResult(lv[t].h, lv[t].err)]
    /\ waitq' = Broadcast(lv[t].c)
    /\ hashMu' = Free
    /\ ret' = [ret EXCEPT ![t] = hashResult(lv[t].h, lv[t].err)]
    /\ pc' = [pc EXCEPT ![t] = "respond"]
    /\ UNCHANGED <<discVars, popVars, shared, hashCond, lv, nreq, starts, blocked, fault>>

\* delete(hashCond, path); hashCache[path] = hashResult{h, err}; c.Broadcast();
\* hashMu.Unlock(); return h, err
Publish(t) ==
    /\ pc[t] = "publish"
    /\ hashCond' = [hashCond EXCEPT ![lv[t].path] = NoCond]
    /\ hashCache' = [hashCache EXCEPT ![lv[t].path] = hashResult(lv[t].h, lv[t].err)]
    /\ waitq' = Broadcast(lv[t].c)
    /\ hashMu' = Free
    /\ ret' = [ret EXCEPT ![t] = hashResult(lv[t].h, lv[t].err)]
    /\ pc' = [pc EXCEPT ![t] = "respond"]
    /\ UNCHANGED <<discVars, popVars, shared, lv, nreq, starts, blocked, fault>>

\* the digest handler's answer to what getBlake3 returned:
\*   if err != nil { http.Error(w, ..., http.StatusInternalServerError); return }
\*   fmt.Fprint(w, hash)
digestResponse(r) ==
    IF r.err # "nil" THEN [status |-> 500, body |-> Str(23, FALSE, 0)]
    ELSE [status |-> 200, body |-> r.hash]

\* the handler writes its response and returns
HandlerRespond(t) ==
    /\ pc[t] = "respond"
    /\ lv' = [lv EXCEPT ![t] = NoLocals]
    /\ ret' = [ret EXCEPT ![t] = NoResult]
    /\ blocked' = blocked \ {t}
    /\ pc' = [pc EXCEPT ![t] = "idle"]
    /\ UNCHANGED <<discVars, popVars, shared, hashCache, hashCond, hashMu, waitq, nreq, starts, fault>>

getBlake3(t) ==
    \/ Lock1(t) \/ CacheHit(t) \/ WaitAdd(t) \/ WaitUnlock(t) \/ WaitWake(t)
    \/ WaitReturn(t) \/ Install(t) \/ ComputeOpen(t) \/ ComputeRead(t)
    \/ Lock2(t) \/ Publish(t)

(***************************************************************************)
(* The receiver: main's reconciliation of the files on disk, and the       *)
(* download engine (downloadModel) driven by the Bubble Tea event loop.    *)
(* A command (tea.Cmd) runs on its own goroutine and sends one message;    *)
(* the loop hands the messages to Update one at a time, in the order they  *)
(* happen to arrive.                                                       *)
(***************************************************************************)
\* a file on disk: whether it exists, and its bytes
NoFile == [exists |-> FALSE, data |-> <<>>]
File(data) == [exists |-> TRUE, data |-> data]
\* a stream being read: whether it is open, and the bytes still to come
NoBody == [open |-> FALSE, rem |-> <<>>]
\* the body of an HTTP error answer: bytes that are no bytes of a file
ErrBody == <<2>>
\* a digest that is the digest of no file of the model
WrongDigest == Str(DigestLen, TRUE, 0)

\* an error value: what failed, which case of it, and for a digest mismatch
\* the two digests the message prints
Err(kind, detail) == [kind |-> kind, detail |-> detail,
                      expected |-> EmptyStr, got |-> EmptyStr]
NilErr == Err("nil", "")

\* a final file that was on disk before the program started
OldFinals == {File(<<1>>)}

NoHist == [force |-> FALSE, prompted |-> FALSE, part0 |-> NoFile,
           final0 |-> NoFile, offset |-> 0, fileSrv |-> "", status |-> 0,
           digestSrv |-> "", foreign |-> FALSE, fault |-> FALSE, eos |-> FALSE,
           renamed |-> FALSE, gotDigest |-> FALSE, hashedEOF |-> FALSE,
           compared |-> FALSE, localHash |-> EmptyStr, remoteHash |-> EmptyStr,
           removed |-> FALSE, runErr |-> FALSE,
           req |-> [hasRange |-> FALSE, start |-> 0, user |-> ""]]

\* the zero downloadModel
ZeroModel == [downloadedBytes |-> 0, totalBytes |-> 0, err |-> NilErr,
              done |-> FALSE, verifying |-> FALSE, Body |-> FALSE,
              blake3File |-> FALSE,
              blake3Hasher |-> 0, blake3TotalBytes |-> 0,
              blake3ReadBytes |-> 0, blake3RemoteHash |-> EmptyStr]

\* newDownloadModel(username, fn, partFn, url, offset)
newDownloadModel(offset) ==
    [ZeroModel EXCEPT !.downloadedBytes = offset]

Cmd(type) == [type |-> type]
Msg(type) == [type |-> type]
One(x) == SetToBag({x})
QuitMsg == Msg("QuitMsg")
\* tickSpeed(): tea.Tick(100ms) sends one speedTickMsg
tickSpeed == Msg("speedTickMsg")

\* fileExists(name)
fileExists(f) == f.exists

InitPop ==
    /\ src \in Files
    /\ partFile \in {NoFile} \cup {File(f) : f \in PartFiles}
    /\ finalFile \in {NoFile} \cup OldFinals
    /\ mainPc = "start"
    /\ outcome = "none"
    /\ m = ZeroModel
    /\ cmds = EmptyBag
    /\ msgs = EmptyBag
    /\ body = NoBody
    /\ hfile = NoBody
    /\ keys = 0
    /\ hist = NoHist

\* Main whose decline path removes the final file before it exits
Main_DeclineRemoves(force, yes, statErr) ==
    /\ mainPc = "start"
    /\ LET prompt == fileExists(finalFile) /\ ~force
           off == IF fileExists(partFile) /\ ~statErr THEN Len(partFile.data) ELSE 0
           h0 == [hist EXCEPT !.force = force, !.prompted = prompt,
                              !.part0 = partFile, !.final0 = finalFile]
       IN  IF prompt /\ ~yes
           THEN /\ mainPc' = "exited"
                /\ outcome' = "declined"
                /\ hist' = h0
                /\ finalFile' = NoFile
                /\ UNCHANGED <<m, cmds, msgs>>
           ELSE /\ mainPc' = "run"
                /\ m' = newDownloadModel(off)
                /\ cmds' = One([type |-> "requestURL", off |-> off])
                /\ msgs' = One(tickSpeed)
                /\ hist' = [h0 EXCEPT !.offset = off]
                /\ UNCHANGED <<outcome, finalFile>>
    /\ UNCHANGED <<discVars, pushVars, src, partFile, body, hfile, keys>>

\* main, once the service is found: the overwrite prompt, the resume offset,
\* the model, and p.Run(), whose Init issues tickSpeed() and requestURL(m)
\*   if fileExists(fn) && !*force { prompt; if answer is not yes { os.Exit(0) } }
\*   if fileExists(partFn) { fi, err := os.Stat(partFn); if err == nil { offset = fi.Size() } }
\* The flag -force is read only when the final file exists
\* (fileExists(fn) && !*force): it is drawn only there.
\* statErr: the os.Stat that follows fileExists(partFn) fails; its error is
\* dropped and the offset stays 0 although the partial file is there
resumeOffset(statErr) ==
    IF fileExists(partFile) /\ ~statErr THEN Len(partFile.data) ELSE 0

Main(force, yes, statErr) ==
    /\ mainPc = "start"
    /\ LET prompt == fileExists(finalFile) /\ ~force
           h0 == [hist EXCEPT !.force = force, !.prompted = prompt,
                              !.part0 = partFile, !.final0 = finalFile]
       IN  IF prompt /\ ~yes
           THEN /\ mainPc' = "exited"
                /\ outcome' = "declined"
                /\ hist' = h0
                /\ UNCHANGED <<discVars, pushVars, m, cmds, msgs>>
           ELSE /\ mainPc' = "run"
                /\ m' = newDownloadModel(resumeOffset(statErr))
                /\ cmds' = One([type |-> "requestURL", off |-> resumeOffset(statErr)])
                /\ msgs' = One(tickSpeed)
                /\ hist' = [h0 EXCEPT !.offset = resumeOffset(statErr)]
                /\ UNCHANGED outcome
    /\ UNCHANGED <<discVars, pushVars, src, partFile, finalFile, body, hfile, keys>>

(***************************************************************************)
(* The servers the receiver may be talking to.                             *)
(***************************************************************************)
\* http.ServeFile(w, r, fn) of the sender, for a request with the header
\* Range: bytes=<off>- (no header when off = 0): the whole file with 200; the
\* rest of the file with 206; 416 and an error page when the range starts at
\* or after the end of a file that is not empty
ServeFile(content, off) ==
    IF off = 0 \/ content = <<>>
    THEN [status |-> 200, data |-> content]
    ELSE IF off >= Len(content)
         THEN [status |-> 416, data |-> ErrBody]
         ELSE [status |-> 206, data |-> Suffix(content, off)]

\* the answers to the file request: the sender's, a server that ignores the
\* Range header, a server that answers with an error status
FileAnswers(off) ==
    {[srv |-> "sender", rsp |-> ServeFile(src, off)],
     [srv |-> "norange", rsp |-> [status |-> 200, data |-> src]],
     [srv |-> "error", rsp |-> [status |-> 404, data |-> ErrBody]]}

\* the answers to the digest request: the sender's (its handler writes the
\* digest of the file, status 200), and those of other servers: not ready,
\* another digest (written with a newline after it), a short body, 64 characters that are not hex digits, an
\* error status
DigestAnswers ==
    {[srv |-> "sender", status |-> 200, text |-> Blake3Hex(src)],
     [srv |-> "pending", status |-> 503, text |-> EmptyStr],
     [srv |-> "wrong", status |-> 200, text |-> WithNewline(WrongDigest)],
     [srv |-> "short", status |-> 200, text |-> Str(10, TRUE, 1)],
     [srv |-> "nothex", status |-> 200, text |-> Str(DigestLen, FALSE, 1)],
     [srv |-> "error", status |-> 500, text |-> Str(23, FALSE, 2)]}

(***************************************************************************)
(* The commands.                                                           *)
(***************************************************************************)
\* a command has run: it leaves the bag and its message enters the bag
Ran(c, msg) ==
    /\ cmds' = cmds (-) One(c)
    /\ msgs' = msgs (+) One(msg)

\* the local username main hands to the engine
username == "me"

\* requestHeaders that sets Range whatever the offset
requestHeaders_AlwaysRange(downloadedBytes) ==
    [hasRange |-> TRUE, start |-> downloadedBytes, user |-> username]

\* the headers of the file request:
\*   if m.downloadedBytes > 0 { req.Header.Set("Range", "bytes=<downloadedBytes>-") }
\*   req.Header.Set("X-PushPop-User", m.username)
requestHeaders(downloadedBytes) ==
    [hasRange |-> downloadedBytes > 0,
     start |-> IF downloadedBytes > 0 THEN downloadedBytes ELSE 0,
     user |-> username]

\* the first byte a server is asked for: that of the Range header, 0 without one
rangeOf(req) == IF req.hasRange THEN req.start ELSE 0

\* requestURL(m): GET m.URL, with Range: bytes=<downloadedBytes>- when
\* downloadedBytes > 0; a transport error gives requestURLPanicMsg
requestURL ==
    \E c \in BagToSet(cmds) :
        /\ c.type = "requestURL"
        /\ mainPc = "run"
        /\ \/ \E a \in FileAnswers(rangeOf(requestHeaders(c.off))) :
                /\ body' = [open |-> TRUE, rem |-> a.rsp.data]
                /\ Ran(c, [type |-> "requestURLGetBodyMsg",
                           status |-> a.rsp.status, length |-> Len(a.rsp.data)])
                /\ hist' = [hist EXCEPT !.fileSrv = a.srv, !.status = a.rsp.status,
                                        !.foreign = @ \/ a.srv # "sender",
                                        !.req = requestHeaders(c.off)]
           \/ /\ Ran(c, [type |-> "requestURLPanicMsg", err |-> Err("transport", "request")])
              /\ hist' = [hist EXCEPT !.fault = TRUE]
              /\ UNCHANGED body
        /\ UNCHANGED <<discVars, pushVars, src, partFile, finalFile, mainPc, outcome, m, hfile, keys>>

\* generateReadChunkCmd(body, buf): n, err := body.Read(buf)
\*   n > 0: requestURLReceivedMsg(buf[:n]); io.EOF: requestURLDoneMsg;
\*   another error: requestURLPanicMsg
generateReadChunkCmd ==
    \E c \in BagToSet(cmds) :
        /\ c.type = "readChunk"
        /\ mainPc = "run"
        /\ \/ /\ body.rem # <<>>
              /\ \E n \in 1..Min(MaxChunk, Len(body.rem)) :
                    /\ body' = [body EXCEPT !.rem = Suffix(@, n)]
                    /\ Ran(c, [type |-> "requestURLReceivedMsg",
                               chunk |-> Prefix(body.rem, n)])
              /\ UNCHANGED hist
           \/ /\ body.rem = <<>>
              /\ Ran(c, Msg("requestURLDoneMsg"))
              /\ hist' = [hist EXCEPT !.eos = TRUE]
              /\ UNCHANGED body
           \/ /\ Ran(c, [type |-> "requestURLPanicMsg", err |-> Err("transport", "read")])
              /\ hist' = [hist EXCEPT !.fault = TRUE]
              /\ UNCHANGED body
        /\ UNCHANGED <<discVars, pushVars, src, partFile, finalFile, mainPc, outcome, m, hfile, keys>>

\* generateRenameFileCmd that makes an empty final file when there is no
\* partial file
generateRenameFileCmd_CreatesMissing ==
    \E c \in BagToSet(cmds) :
        /\ c.type = "rename"
        /\ mainPc = "run"
        /\ finalFile' = IF fileExists(partFile) THEN partFile ELSE File(<<>>)
        /\ partFile' = NoFile
        /\ Ran(c, [type |-> "fileRenamedMsg", ok |-> TRUE])
        /\ hist' = [hist EXCEPT !.renamed = TRUE]
        /\ UNCHANGED <<discVars, pushVars, src, mainPc, outcome, m, body, hfile, keys>>

\* generateRenameFileCmd(partFn, finalFn): err := os.Rename(partFn, finalFn)
generateRenameFileCmd ==
    \E c \in BagToSet(cmds) :
        /\ c.type = "rename"
        /\ mainPc = "run"
        /\ \/ /\ fileExists(partFile)
              /\ finalFile' = partFile
              /\ partFile' = NoFile
              /\ Ran(c, [type |-> "fileRenamedMsg", ok |-> TRUE])
              /\ hist' = [hist EXCEPT !.renamed = TRUE]
           \/ /\ ~fileExists(partFile)
              /\ Ran(c, [type |-> "fileRenamedMsg", ok |-> FALSE])
              /\ UNCHANGED <<discVars, pushVars, partFile, finalFile, hist>>
           \/ /\ fileExists(partFile)
              /\ Ran(c, [type |-> "fileRenamedMsg", ok |-> FALSE])
              /\ hist' = [hist EXCEPT !.fault = TRUE]
              /\ UNCHANGED <<discVars, pushVars, partFile, finalFile>>
        /\ UNCHANGED <<discVars, pushVars, src, mainPc, outcome, m, body, hfile, keys>>

\* strings.TrimSpace(s): s without the white space around it
stringsTrimSpace(text) == [text EXCEPT !.pad = 0]

\* fetchBlake3Msg that takes 503 for an error like any other status
fetchBlake3Msg_No503(a) ==
    IF a.status # 200
    THEN [type |-> "blake3FetchedMsg", remoteHash |-> EmptyStr,
          err |-> Err("fetch", "status")]
    ELSE IF stringsTrimSpace(a.text).len # DigestLen
         THEN [type |-> "blake3FetchedMsg", remoteHash |-> EmptyStr,
               err |-> Err("fetch", "length")]
    ELSE [type |-> "blake3FetchedMsg", remoteHash |-> stringsTrimSpace(a.text),
          err |-> NilErr]

\* what generateFetchBlake3Cmd makes of an answer
\*   503: blake3PendingMsg; not 200: an error;
\*   len(remoteHash) != 64: an error; else blake3FetchedMsg{remoteHash}
fetchBlake3Msg(a) ==
    IF a.status = 503 THEN Msg("blake3PendingMsg")
    ELSE IF a.status # 200
         THEN [type |-> "blake3FetchedMsg", remoteHash |-> EmptyStr,
               err |-> Err("fetch", "status")]
    ELSE IF stringsTrimSpace(a.text).len # DigestLen
         THEN [type |-> "blake3FetchedMsg", remoteHash |-> EmptyStr,
               err |-> Err("fetch", "length")]
    ELSE [type |-> "blake3FetchedMsg", remoteHash |-> stringsTrimSpace(a.text),
          err |-> NilErr]

\* generateFetchBlake3Cmd(url, filename, username): GET <url><filename>.blake3
generateFetchBlake3Cmd ==
    \E c \in BagToSet(cmds) :
        /\ c.type = "fetchBlake3"
        /\ mainPc = "run"
        /\ \/ \E a \in DigestAnswers :
                /\ Ran(c, fetchBlake3Msg(a))
                /\ hist' = [hist EXCEPT
                              !.digestSrv = a.srv,
                              !.foreign = @ \/ a.srv # "sender",
                              !.gotDigest = @ \/ (fetchBlake3Msg(a).type = "blake3FetchedMsg"
                                                  /\ fetchBlake3Msg(a).err = NilErr)]
           \/ /\ Ran(c, [type |-> "blake3FetchedMsg", remoteHash |-> EmptyStr,
                         err |-> Err("fetch", "transport")])
              /\ hist' = [hist EXCEPT !.fault = TRUE]
        /\ UNCHANGED <<discVars, pushVars, src, partFile, finalFile, mainPc, outcome, m, body, hfile, keys>>

\* generateComputeBlake3Cmd(filename, remoteHash): os.Stat, os.Open
\*   an error: blake3ComputedMsg{err}; else blake3StartMsg{file, totalBytes, remoteHash}
generateComputeBlake3Cmd ==
    \E c \in BagToSet(cmds) :
        /\ c.type = "computeBlake3"
        /\ mainPc = "run"
        /\ \/ /\ fileExists(finalFile)
              /\ hfile' = [open |-> TRUE, rem |-> finalFile.data]
              /\ Ran(c, [type |-> "blake3StartMsg", file |-> TRUE,
                         totalBytes |-> Len(finalFile.data), remoteHash |-> c.remoteHash])
              /\ UNCHANGED hist
           \/ /\ Ran(c, [type |-> "blake3ComputedMsg", localHash |-> EmptyStr,
                         remoteHash |-> EmptyStr, err |-> Err("open", "")])
              /\ hist' = [hist EXCEPT !.fault = TRUE]
              /\ UNCHANGED hfile
        /\ UNCHANGED <<discVars, pushVars, src, partFile, finalFile, mainPc, outcome, m, body, keys>>

\* generateReadBlake3ChunkCmd(file): n, err := file.Read(buf); a read of a
\* regular file fills the buffer unless the file ends first
\*   n > 0: blake3ChunkReadMsg{chunk}; io.EOF: blake3ChunkReadMsg{err: io.EOF};
\*   another error: blake3ChunkReadMsg{err}
generateReadBlake3ChunkCmd ==
    \E c \in BagToSet(cmds) :
        /\ c.type = "readBlake3Chunk"
        /\ mainPc = "run"
        /\ \/ /\ hfile.rem # <<>>
              /\ LET n == Min(MaxChunk, Len(hfile.rem))
                 IN  /\ hfile' = [hfile EXCEPT !.rem = Suffix(@, n)]
                     /\ Ran(c, [type |-> "blake3ChunkReadMsg",
                                chunk |-> Prefix(hfile.rem, n), ioerr |-> "nil"])
              /\ UNCHANGED hist
           \/ /\ hfile.rem = <<>>
              /\ Ran(c, [type |-> "blake3ChunkReadMsg", chunk |-> <<>>, ioerr |-> "EOF"])
              /\ hist' = [hist EXCEPT !.hashedEOF = TRUE]
              /\ UNCHANGED hfile
           \/ /\ Ran(c, [type |-> "blake3ChunkReadMsg", chunk |-> <<>>, ioerr |-> "read"])
              /\ hist' = [hist EXCEPT !.fault = TRUE]
              /\ UNCHANGED hfile
        /\ UNCHANGED <<discVars, pushVars, src, partFile, finalFile, mainPc, outcome, m, body, keys>>

(***************************************************************************)
(* Update: one case per message.                                           *)
(***************************************************************************)
\* Update has handled msg: it leaves the bag, the commands Update returned
\* are issued (timers and tea.Quit as the message they will send)
Handled(msg, newCmds, newMsgs) ==
    /\ msgs' = (msgs (-) One(msg)) (+) newMsgs
    /\ cmds' = cmds (+) newCmds

\* Update_KeyMsg that quits without recording the error
Update_KeyMsg_NoErr ==
    /\ mainPc = "run"
    /\ keys < MaxKeys
    /\ keys' = keys + 1
    /\ msgs' = msgs (+) One(QuitMsg)
    /\ UNCHANGED <<discVars, pushVars, src, partFile, finalFile, mainPc, outcome, m, cmds, body, hfile, hist>>

\* case tea.KeyMsg: "ctrl+c" or "q"
\*   m.err = fmt.Errorf("aborted"); return m, tea.Quit
Update_KeyMsg ==
    /\ mainPc = "run"
    /\ keys < MaxKeys
    /\ keys' = keys + 1
    /\ m' = [m EXCEPT !.err = Err("aborted", "")]
    /\ msgs' = msgs (+) One(QuitMsg)
    /\ UNCHANGED <<discVars, pushVars, src, partFile, finalFile, mainPc, outcome, cmds, body, hfile, hist>>

\* totalBytesOf that adds the offset whatever the status
totalBytesOf_AlwaysAdds(downloaded, status, length) == length + downloaded

\* m.totalBytes after the response:
\*   m.totalBytes = msg.resp.ContentLength
\*   if m.downloadedBytes > 0 && StatusCode == http.StatusPartialContent {
\*       m.totalBytes += m.downloadedBytes }
totalBytesOf(downloaded, status, length) ==
    IF downloaded > 0 /\ status = 206 THEN length + downloaded ELSE length

\* Update_requestURLGetBodyMsg that reads ahead: two reads are issued
Update_requestURLGetBodyMsg_ReadAhead ==
    \E msg \in BagToSet(msgs) :
        /\ msg.type = "requestURLGetBodyMsg"
        /\ mainPc = "run"
        /\ m' = [m EXCEPT !.Body = TRUE,
                          !.totalBytes = totalBytesOf(m.downloadedBytes, msg.status, msg.length)]
        /\ Handled(msg, One(Cmd("readChunk")) (+) One(Cmd("readChunk")), EmptyBag)
        /\ UNCHANGED <<discVars, pushVars, src, partFile, finalFile, mainPc, outcome, body, hfile, keys, hist>>

\* case requestURLGetBodyMsg
Update_requestURLGetBodyMsg ==
    \E msg \in BagToSet(msgs) :
        /\ msg.type = "requestURLGetBodyMsg"
        /\ mainPc = "run"
        /\ m' = [m EXCEPT !.Body = TRUE,
                          !.totalBytes = totalBytesOf(m.downloadedBytes, msg.status, msg.length)]
        /\ Handled(msg, One(Cmd("readChunk")), EmptyBag)
        /\ UNCHANGED <<discVars, pushVars, src, partFile, finalFile, mainPc, outcome, body, hfile, keys, hist>>

\* createOrOpenPartFile(partFn) and f.Write(chunk): the chunk is appended to
\* the partial file, which is created when it does not exist
appendChunk(file, chunk) ==
    IF fileExists(file) THEN File(file.data \o chunk) ELSE File(chunk)

\* case requestURLReceivedMsg
Update_requestURLReceivedMsg ==
    \E msg \in BagToSet(msgs) :
        /\ msg.type = "requestURLReceivedMsg"
        /\ mainPc = "run"
        /\ \/ /\ partFile' = appendChunk(partFile, msg.chunk)
              /\ m' = [m EXCEPT !.downloadedBytes = @ + Len(msg.chunk)]
              /\ Handled(msg, One(Cmd("readChunk")), EmptyBag)
              /\ UNCHANGED hist
           \/ \* createOrOpenPartFile fails: nothing on disk changes; or the
              \* file is created or opened and f.Write fails after k bytes
              /\ \/ UNCHANGED partFile
                 \/ \E k \in 0..(Len(msg.chunk) - 1) :
                       partFile' = appendChunk(partFile, Prefix(msg.chunk, k))
              /\ m' = [m EXCEPT !.err = Err("write", "")]
              /\ Handled(msg, EmptyBag, One(QuitMsg))
              /\ hist' = [hist EXCEPT !.fault = TRUE]
        /\ UNCHANGED <<discVars, pushVars, src, finalFile, mainPc, outcome, body, hfile, keys>>

\* Update_requestURLDoneMsg that skips the rename and fetches the digest
Update_requestURLDoneMsg_SkipsRename ==
    \E msg \in BagToSet(msgs) :
        /\ msg.type = "requestURLDoneMsg"
        /\ mainPc = "run"
        /\ body' = IF m.Body THEN [body EXCEPT !.open = FALSE] ELSE body
        /\ m' = [m EXCEPT !.Body = FALSE, !.done = TRUE]
        /\ Handled(msg, One(Cmd("fetchBlake3")), EmptyBag)
        /\ UNCHANGED <<discVars, pushVars, src, partFile, finalFile, mainPc, outcome, hfile, keys, hist>>

\* case requestURLDoneMsg
Update_requestURLDoneMsg ==
    \E msg \in BagToSet(msgs) :
        /\ msg.type = "requestURLDoneMsg"
        /\ mainPc = "run"
        /\ body' = IF m.Body THEN [body EXCEPT !.open = FALSE] ELSE body
        /\ m' = [m EXCEPT !.Body = FALSE, !.done = TRUE]
        /\ Handled(msg, One(Cmd("rename")), EmptyBag)
        /\ UNCHANGED <<discVars, pushVars, src, partFile, finalFile, mainPc, outcome, hfile, keys, hist>>

\* Update_fileRenamedMsg that goes on to the digest whatever the rename gave
Update_fileRenamedMsg_IgnoresErr ==
    \E msg \in BagToSet(msgs) :
        /\ msg.type = "fileRenamedMsg"
        /\ mainPc = "run"
        /\ m' = m
        /\ Handled(msg, One(Cmd("fetchBlake3")), EmptyBag)
        /\ UNCHANGED <<discVars, pushVars, src, partFile, finalFile, mainPc, outcome, body, hfile, keys, hist>>

\* case fileRenamedMsg
Update_fileRenamedMsg ==
    \E msg \in BagToSet(msgs) :
        /\ msg.type = "fileRenamedMsg"
        /\ mainPc = "run"
        /\ IF ~msg.ok
           THEN /\ m' = [m EXCEPT !.err = Err("rename", "")]
                /\ Handled(msg, EmptyBag, One(QuitMsg))
           ELSE /\ m' = m
                /\ Handled(msg, One(Cmd("fetchBlake3")), EmptyBag)
        /\ UNCHANGED <<discVars, pushVars, src, partFile, finalFile, mainPc, outcome, body, hfile, keys, hist>>

\* Update_blake3PendingMsg that gives up instead of scheduling the retry
Update_blake3PendingMsg_GivesUp ==
    \E msg \in BagToSet(msgs) :
        /\ msg.type = "blake3PendingMsg"
        /\ mainPc = "run"
        /\ m' = [m EXCEPT !.err = Err("blake3 fetch", "pending")]
        /\ Handled(msg, EmptyBag, One(QuitMsg))
        /\ UNCHANGED <<discVars, pushVars, src, partFile, finalFile, mainPc, outcome, body, hfile, keys, hist>>

\* case blake3PendingMsg: tea.Tick(1s) sends blake3RetryFetchMsg
Update_blake3PendingMsg ==
    \E msg \in BagToSet(msgs) :
        /\ msg.type = "blake3PendingMsg"
        /\ mainPc = "run"
        /\ Handled(msg, EmptyBag, One(Msg("blake3RetryFetchMsg")))
        /\ UNCHANGED <<discVars, pushVars, src, partFile, finalFile, mainPc, outcome, m, body, hfile, keys, hist>>

\* Update_blake3RetryFetchMsg that issues the fetch twice
Update_blake3RetryFetchMsg_Twice ==
    \E msg \in BagToSet(msgs) :
        /\ msg.type = "blake3RetryFetchMsg"
        /\ mainPc = "run"
        /\ Handled(msg, One(Cmd("fetchBlake3")) (+) One(Cmd("fetchBlake3")), EmptyBag)
        /\ UNCHANGED <<discVars, pushVars, src, partFile, finalFile, mainPc, outcome, m, body, hfile, keys, hist>>

\* case blake3RetryFetchMsg
Update_blake3RetryFetchMsg ==
    \E msg \in BagToSet(msgs) :
        /\ msg.type = "blake3RetryFetchMsg"
        /\ mainPc = "run"
        /\ Handled(msg, One(Cmd("fetchBlake3")), EmptyBag)
        /\ UNCHANGED <<discVars, pushVars, src, partFile, finalFile, mainPc, outcome, m, body, hfile, keys, hist>>

\* Update_blake3FetchedMsg that removes the final file when the fetch failed
Update_blake3FetchedMsg_RemovesOnError ==
    \E msg \in BagToSet(msgs) :
        /\ msg.type = "blake3FetchedMsg"
        /\ mainPc = "run"
        /\ IF msg.err # NilErr
           THEN /\ m' = [m EXCEPT !.err = Err("blake3 fetch", msg.err.detail)]
                /\ finalFile' = NoFile
                /\ Handled(msg, EmptyBag, One(QuitMsg))
           ELSE /\ m' = m
                /\ finalFile' = finalFile
                /\ Handled(msg, One([type |-> "computeBlake3",
                                     remoteHash |-> msg.remoteHash]), EmptyBag)
        /\ UNCHANGED <<discVars, pushVars, src, partFile, mainPc, outcome, body, hfile, keys, hist>>

\* case blake3FetchedMsg
Update_blake3FetchedMsg ==
    \E msg \in BagToSet(msgs) :
        /\ msg.type = "blake3FetchedMsg"
        /\ mainPc = "run"
        /\ IF msg.err # NilErr
           THEN /\ m' = [m EXCEPT !.err = Err("blake3 fetch", msg.err.detail)]
                /\ Handled(msg, EmptyBag, One(QuitMsg))
           ELSE /\ m' = m
                /\ Handled(msg, One([type |-> "computeBlake3",
                                     remoteHash |-> msg.remoteHash]), EmptyBag)
        /\ UNCHANGED <<discVars, pushVars, src, partFile, finalFile, mainPc, outcome, body, hfile, keys, hist>>

\* case blake3StartMsg
Update_blake3StartMsg ==
    \E msg \in BagToSet(msgs) :
        /\ msg.type = "blake3StartMsg"
        /\ mainPc = "run"
        /\ IF ~msg.file
           THEN /\ m' = [m EXCEPT !.err = Err("open for hash", "")]
                /\ Handled(msg, EmptyBag, One(QuitMsg))
           ELSE /\ m' = [m EXCEPT !.verifying = TRUE, !.blake3File = TRUE,
                                  !.blake3Hasher = blake3New,
                                  !.blake3TotalBytes = msg.totalBytes,
                                  !.blake3ReadBytes = 0,
                                  !.blake3RemoteHash = msg.remoteHash]
                /\ Handled(msg, One(Cmd("readBlake3Chunk")), EmptyBag)
        /\ UNCHANGED <<discVars, pushVars, src, partFile, finalFile, mainPc, outcome, body, hfile, keys, hist>>

\* Update_blake3ChunkReadMsg that counts the hashed bytes in downloadedBytes
Update_blake3ChunkReadMsg_SharedCounter ==
    \E msg \in BagToSet(msgs) :
        /\ msg.type = "blake3ChunkReadMsg"
        /\ mainPc = "run"
        /\ IF msg.ioerr \notin {"nil", "EOF"}
           THEN /\ hfile' = IF m.blake3File THEN [hfile EXCEPT !.open = FALSE] ELSE hfile
                /\ m' = [m EXCEPT !.err = Err("hash read", "")]
                /\ Handled(msg, EmptyBag, One(QuitMsg))
           ELSE IF Len(msg.chunk) > 0
           THEN /\ m' = [m EXCEPT !.blake3Hasher = hasherWrite(@, msg.chunk),
                                  !.downloadedBytes = @ + Len(msg.chunk)]
                /\ Handled(msg, One(Cmd("readBlake3Chunk")), EmptyBag)
                /\ UNCHANGED hfile
           ELSE /\ hfile' = IF m.blake3File THEN [hfile EXCEPT !.open = FALSE] ELSE hfile
                /\ m' = [m EXCEPT !.blake3File = FALSE]
                /\ Handled(msg, EmptyBag,
                           One([type |-> "blake3ComputedMsg",
                                localHash |-> hexSum(m.blake3Hasher),
                                remoteHash |-> m.blake3RemoteHash,
                                err |-> NilErr]))
        /\ UNCHANGED <<discVars, pushVars, src, partFile, finalFile, mainPc, outcome, body, keys, hist>>

\* case blake3ChunkReadMsg
Update_blake3ChunkReadMsg ==
    \E msg \in BagToSet(msgs) :
        /\ msg.type = "blake3ChunkReadMsg"
        /\ mainPc = "run"
        /\ IF msg.ioerr \notin {"nil", "EOF"}
           THEN /\ hfile' = IF m.blake3File THEN [hfile EXCEPT !.open = FALSE] ELSE hfile
                /\ m' = [m EXCEPT !.err = Err("hash read", "")]
                /\ Handled(msg, EmptyBag, One(QuitMsg))
           ELSE IF Len(msg.chunk) > 0
           THEN /\ m' = [m EXCEPT !.blake3Hasher = hasherWrite(@, msg.chunk),
                                  !.blake3ReadBytes = @ + Len(msg.chunk)]
                /\ Handled(msg, One(Cmd("readBlake3Chunk")), EmptyBag)
                /\ UNCHANGED hfile
           ELSE /\ hfile' = IF m.blake3File THEN [hfile EXCEPT !.open = FALSE] ELSE hfile
                /\ m' = [m EXCEPT !.blake3File = FALSE]
                /\ Handled(msg, EmptyBag,
                           One([type |-> "blake3ComputedMsg",
                                localHash |-> hexSum(m.blake3Hasher),
                                remoteHash |-> m.blake3RemoteHash,
                                err |-> NilErr]))
        /\ UNCHANGED <<discVars, pushVars, src, partFile, finalFile, mainPc, outcome, body, keys, hist>>

\* verifyErr without the comparison of the digests
verifyErr_NoCompare(msg) ==
    IF msg.err # NilErr THEN Err("hash compute", "") ELSE NilErr

\* the error Update records for a blake3ComputedMsg, NilErr when it records none
\*   if msg.err != nil { "hash compute: ..." }
\*   if msg.localHash != msg.remoteHash { "BLAKE3 mismatch\nexpected: %s\ngot: %s" }
verifyErr(msg) ==
    IF msg.err # NilErr THEN Err("hash compute", "")
    ELSE IF msg.localHash # msg.remoteHash
         THEN [Err("mismatch", "") EXCEPT !.expected = msg.remoteHash,
                                          !.got = msg.localHash]
         ELSE NilErr

\* case blake3ComputedMsg; on a mismatch: _ = os.Remove(m.filename), whose
\* error is discarded: when the unlink fails the file stays under the final
\* name and the handler goes on as if it had been removed
Update_blake3ComputedMsg ==
    \E msg \in BagToSet(msgs) :
        /\ msg.type = "blake3ComputedMsg"
        /\ mainPc = "run"
        /\ LET e == verifyErr(msg)
               mismatch == e.kind = "mismatch"
           IN  /\ m' = [m EXCEPT !.verifying = FALSE,
                                 !.err = IF e = NilErr THEN @ ELSE e]
               /\ \E unlinked \in IF mismatch THEN BOOLEAN ELSE {FALSE} :
                     /\ finalFile' = IF unlinked THEN NoFile ELSE finalFile
                     /\ hist' = IF msg.err # NilErr THEN hist
                                ELSE [hist EXCEPT !.compared = TRUE,
                                                  !.localHash = msg.localHash,
                                                  !.remoteHash = msg.remoteHash,
                                                  !.removed = @ \/ unlinked,
                                                  !.fault = @ \/ (mismatch /\ ~unlinked)]
        /\ Handled(msg, EmptyBag, One(QuitMsg))
        /\ UNCHANGED <<discVars, pushVars, src, partFile, mainPc, outcome, body, hfile, keys>>

\* Update_requestURLPanicMsg that sends the file request again
Update_requestURLPanicMsg_Retries ==
    \E msg \in BagToSet(msgs) :
        /\ msg.type = "requestURLPanicMsg"
        /\ mainPc = "run"
        /\ m' = m
        /\ Handled(msg, One([type |-> "requestURL", off |-> m.downloadedBytes]), EmptyBag)
        /\ UNCHANGED <<discVars, pushVars, src, partFile, finalFile, mainPc, outcome, body, hfile, keys, hist>>

\* case requestURLPanicMsg: m.err = msg; return m, tea.Quit
Update_requestURLPanicMsg ==
    \E msg \in BagToSet(msgs) :
        /\ msg.type = "requestURLPanicMsg"
        /\ mainPc = "run"
        /\ m' = [m EXCEPT !.err = msg.err]
        /\ Handled(msg, EmptyBag, One(QuitMsg))
        /\ UNCHANGED <<discVars, pushVars, src, partFile, finalFile, mainPc, outcome, body, hfile, keys, hist>>

\* Update_speedTickMsg that also reads the body
Update_speedTickMsg_Reads ==
    \E msg \in BagToSet(msgs) :
        /\ msg.type = "speedTickMsg"
        /\ mainPc = "run"
        /\ m' = m
        /\ Handled(msg, IF m.Body THEN One(Cmd("readChunk")) ELSE EmptyBag,
                   IF m.verifying \/ ~m.done THEN One(tickSpeed) ELSE EmptyBag)
        /\ UNCHANGED <<discVars, pushVars, src, partFile, finalFile, mainPc, outcome, body, hfile, keys, hist>>

\* case speedTickMsg (the fields of the rate display, speed, lastUpdate,
\* lastDownloadedBytes and nextPercent, are left out of the model)
\*   if m.verifying || !m.done { cmds = append(cmds, tickSpeed()) }
Update_speedTickMsg ==
    \E msg \in BagToSet(msgs) :
        /\ msg.type = "speedTickMsg"
        /\ mainPc = "run"
        /\ m' = m
        /\ Handled(msg, EmptyBag,
                   IF m.verifying \/ ~m.done THEN One(tickSpeed) ELSE EmptyBag)
        /\ UNCHANGED <<discVars, pushVars, src, partFile, finalFile, mainPc, outcome, body, hfile, keys, hist>>

\* main after p.Run() has returned the final model
\*   if dm.err != nil { log.Fatalln("Error:", dm.err) }
\*   fmt.Println("Download complete and verified:", fn)
mainResult(err) == IF err # NilErr THEN "fatal" ELSE "success"

\* the event loop receives QuitMsg: p.Run() returns the model, and main ends;
\* the commands and messages still under way end with the process
RunQuit ==
    /\ mainPc = "run"
    /\ BagIn(QuitMsg, msgs)
    /\ mainPc' = "exited"
    /\ outcome' = mainResult(m.err)
    /\ cmds' = EmptyBag
    /\ msgs' = EmptyBag
    /\ UNCHANGED <<discVars, pushVars, src, partFile, finalFile, m, body, hfile, keys, hist>>

\* p.Run() itself fails (the terminal cannot be set up, the program is
\* killed), whatever the engine was doing and whatever its err field holds
\*   finalModel, err := p.Run()
\*   if err != nil { log.Fatalln("Error running progress UI:", err) }
RunErr ==
    /\ mainPc = "run"
    /\ mainPc' = "exited"
    /\ outcome' = "fatal"
    /\ cmds' = EmptyBag
    /\ msgs' = EmptyBag
    /\ hist' = [hist EXCEPT !.fault = TRUE, !.runErr = TRUE]
    /\ UNCHANGED <<discVars, pushVars, src, partFile, finalFile, m, body, hfile, keys>>

\* p.Run() returns and main ends
Quit ==
    \/ RunQuit
    \/ RunErr

Update ==
    \/ Update_KeyMsg
    \/ Update_requestURLGetBodyMsg
    \/ Update_requestURLReceivedMsg
    \/ Update_requestURLDoneMsg
    \/ Update_fileRenamedMsg
    \/ Update_blake3PendingMsg
    \/ Update_blake3RetryFetchMsg
    \/ Update_blake3FetchedMsg
    \/ Update_blake3StartMsg
    \/ Update_blake3ChunkReadMsg
    \/ Update_blake3ComputedMsg
    \/ Update_requestURLPanicMsg
    \/ Update_speedTickMsg

RunCmd ==
    \/ requestURL
    \/ generateReadChunkCmd
    \/ generateRenameFileCmd
    \/ generateFetchBlake3Cmd
    \/ generateComputeBlake3Cmd
    \/ generateReadBlake3ChunkCmd

NextPop ==
    \/ \E force \in (IF fileExists(finalFile) THEN BOOLEAN ELSE {FALSE}),
          yes \in BOOLEAN, statErr \in BOOLEAN :
          Main(force, yes, statErr)
    \/ RunCmd
    \/ Update
    \/ Quit

\* the sender's variables while the receiver is looked at, and the receiver's
\* while the sender is
(***************************************************************************)
(* Discovery (package discovery): the username of a TXT record and the     *)
(* address of a service that is on a local network.                        *)
(*                                                                         *)
(* A string is a sequence of tokens: a token is a maximal run of word      *)
(* characters (\w+), "=", or "." for a character that is neither.  Two     *)
(* runs of word characters are never adjacent in a string.                 *)
(***************************************************************************)
MaxTxt == 7
MaxIPs == 2
MaxIfaces == 2
MaxAddrs == 1

Words == {"user", "foo"}
Symbols == Words \cup {"=", "."}
\* the end of a TXT record in a list of records written in one sequence
RecEnd == ";"

\* the lists of TXT records of at most MaxTxt tokens, ends of records included
FlatTexts ==
    {f \in UNION {[1..n -> Symbols \cup {RecEnd}] : n \in 0..MaxTxt} :
        \A i \in 1..(Len(f) - 1) : ~(f[i] \in Words /\ f[i + 1] \in Words)}

RECURSIVE SplitText(_)
SplitText(f) ==
    LET ends == {i \in 1..Len(f) : f[i] = RecEnd}
    IN  IF ends = {} THEN <<f>>
        ELSE LET i == CHOOSE e \in ends : \A o \in ends : e <= o
             IN  <<Prefix(f, i - 1)>> \o SplitText(Suffix(f, i))

Texts == {<<>>} \cup {SplitText(f) : f \in FlatTexts}

\* regexp.MustCompile("(\\w+)=(\\w+)").FindAllStringSubmatch(val, -1): the
\* successive leftmost matches, each with the whole match and its two groups
RECURSIVE FindAllStringSubmatch(_)
FindAllStringSubmatch(val) ==
    LET at == {i \in 1..(Len(val) - 2) :
                  val[i] \in Words /\ val[i + 1] = "=" /\ val[i + 2] \in Words}
    IN  IF at = {} THEN <<>>
        ELSE LET i == CHOOSE e \in at : \A o \in at : e <= o
             IN  <<<<SubSeq(val, i, i + 2), <<val[i]>>, <<val[i + 2]>>>>>>
                     \o FindAllStringSubmatch(Suffix(val, i + 2))

NoName == [name |-> <<>>, err |-> "not called"]

\* GetUserName(entry)
\*   for _, val := range entry.Text {
\*       data := reg.FindAllStringSubmatch(val, -1)
\*       if len(data) < 1 || len(data[0]) != 3 { continue }
\*       if data[0][1] == "user" { return data[0][2], nil } }
\*   return "", fmt.Errorf("User key/value pair not found")
RECURSIVE GetUserName(_)
GetUserName(text) ==
    IF text = <<>>
    THEN [name |-> <<>>, err |-> "User key/value pair not found"]
    ELSE LET data == FindAllStringSubmatch(Head(text))
         IN  IF Len(data) < 1 \/ Len(data[1]) # 3
             THEN GetUserName(Tail(text))
             ELSE IF data[1][2] = <<"user">>
                  THEN [name |-> data[1][3], err |-> "nil"]
                  ELSE GetUserName(Tail(text))

\* the TXT records the sender announces:
\*   kv := fmt.Sprintf("user=%s", usr.Username); text := []string{kv}
announcedText(name) == <<<<"user", "=">> \o name>>

CallGetUserName ==
    /\ userRet = NoName
    /\ userRet' = GetUserName(entryText)
    /\ UNCHANGED <<pushVars, popVars, entryText, ipsIn, localIfaces, ipRet>>

\* net.IP values (IPv4), and the addresses of interfaces: an address with
\* its prefix length, or (NoMask) an address that is written without one
InputIPs == {<<10, 0, 0, 1>>, <<10, 0, 1, 1>>, <<10, 0, 17, 1>>, <<203, 0, 113, 1>>}
NoMask == -1
IfaceAddrs ==
    {[ip |-> <<10, 0, 0, 5>>, ones |-> 24],
     [ip |-> <<10, 0, 1, 5>>, ones |-> 24],
     [ip |-> <<10, 0, 0, 5>>, ones |-> 16],
     [ip |-> <<10, 0, 17, 5>>, ones |-> 20],
     [ip |-> <<10, 0, 0, 5>>, ones |-> NoMask]}

\* ip.Mask(net.CIDRMask(ones, 32)): the first ones bits of the address are
\* kept and the others cleared; byte i keeps its k highest bits
Mask(ip, ones) ==
    [i \in 1..4 |->
        LET k == IF ones >= 8 * i THEN 8
                 ELSE IF ones <= 8 * (i - 1) THEN 0
                 ELSE ones - 8 * (i - 1)
            w == 2 ^ (8 - k)
        IN  (ip[i] \div w) * w]

\* an interface: whether iface.Addrs() fails, and the addresses it gives
Ifaces ==
    {[addrsErr |-> TRUE, addrs |-> <<>>]}
        \cup {[addrsErr |-> FALSE, addrs |-> as] :
                as \in UNION {[1..n -> IfaceAddrs] : n \in 0..MaxAddrs}}

\* net.Interfaces() failed
InterfacesErr == [err |-> "interfaces", ifaces |-> <<>>]
LocalIfaces ==
    {InterfacesErr}
        \cup {[err |-> "nil", ifaces |-> l] :
                l \in UNION {[1..n -> Ifaces] : n \in 0..MaxIfaces}}

\* net.ParseCIDR(ifaceAddr.String()): the network of the address, an error
\* when the address is written without a prefix length
ParseCIDR(a) ==
    IF a.ones = NoMask THEN [err |-> "cidr", ip |-> <<>>, ones |-> 0]
    ELSE [err |-> "nil", ip |-> Mask(a.ip, a.ones), ones |-> a.ones]

\* ifaceNet.Contains(ip)
Contains(ifaceNet, ip) ==
    Mask(ip, ifaceNet.ones) = ifaceNet.ip

\* ip.String(): the dotted form
ipString(ip) == [dotted |-> ip]

NoIP == [ip |-> ipString(<<>>), err |-> "not called"]
NotFoundIP == [ip |-> ipString(<<>>), err |-> "Found no matching interface"]

\* for _, ip := range ips { if ifaceNet.Contains(ip) { return ip.String(), nil } }
RECURSIVE rangeIPs(_, _)
rangeIPs(ifaceNet, ips) ==
    IF ips = <<>> THEN NotFoundIP
    ELSE IF Contains(ifaceNet, Head(ips))
         THEN [ip |-> ipString(Head(ips)), err |-> "nil"]
         ELSE rangeIPs(ifaceNet, Tail(ips))

\* for _, ifaceAddr := range ifaceAddrs { ParseCIDR; if err != nil { continue } ... }
RECURSIVE rangeAddrs(_, _)
rangeAddrs(ifaceAddrs, ips) ==
    IF ifaceAddrs = <<>> THEN NotFoundIP
    ELSE LET ifaceNet == ParseCIDR(Head(ifaceAddrs))
         IN  IF ifaceNet.err # "nil" THEN rangeAddrs(Tail(ifaceAddrs), ips)
             ELSE IF rangeIPs(ifaceNet, ips).err = "nil"
                  THEN rangeIPs(ifaceNet, ips)
                  ELSE rangeAddrs(Tail(ifaceAddrs), ips)

\* for _, iface := range ifaces { iface.Addrs(); if err != nil { continue } ... }
RECURSIVE rangeIfaces(_, _)
rangeIfaces(ifaces, ips) ==
    IF ifaces = <<>> THEN NotFoundIP
    ELSE IF Head(ifaces).addrsErr THEN rangeIfaces(Tail(ifaces), ips)
         ELSE IF rangeAddrs(Head(ifaces).addrs, ips).err = "nil"
              THEN rangeAddrs(Head(ifaces).addrs, ips)
              ELSE rangeIfaces(Tail(ifaces), ips)

\* FindMatchingIP(ips)
\*   ifaces, err := net.Interfaces(); if err != nil { return "", err }
FindMatchingIP(ips) ==
    IF localIfaces.err # "nil"
    THEN [ip |-> ipString(<<>>), err |-> localIfaces.err]
    ELSE rangeIfaces(localIfaces.ifaces, ips)

CallFindMatchingIP ==
    /\ ipRet = NoIP
    /\ ipRet' = FindMatchingIP(ipsIn)
    /\ UNCHANGED <<pushVars, popVars, entryText, userRet, ipsIn, localIfaces>>

UserIdle == entryText = <<>> /\ userRet = NoName
IPIdle == ipsIn = <<>> /\ localIfaces = InterfacesErr /\ ipRet = NoIP
DiscIdle == UserIdle /\ IPIdle

PushIdle ==
    /\ shared = [p \in Paths |-> <<>>]
    /\ hashCache = [p \in Paths |-> NoResult]
    /\ hashCond = [p \in Paths |-> NoCond]
    /\ hashMu = Free
    /\ waitq = {}
    /\ pc = [t \in Threads |-> "idle"]
    /\ lv = [t \in Threads |-> NoLocals]
    /\ ret = [t \in Threads |-> NoResult]
    /\ nreq = 0
    /\ starts = [p \in Paths |-> 0]
    /\ blocked = {}
    /\ fault = [p \in Paths |-> "none"]

PopIdle ==
    /\ src = <<>>
    /\ partFile = NoFile
    /\ finalFile = NoFile
    /\ mainPc = "exited"
    /\ outcome = "none"
    /\ m = ZeroModel
    /\ cmds = EmptyBag
    /\ msgs = EmptyBag
    /\ body = NoBody
    /\ hfile = NoBody
    /\ keys = 0
    /\ hist = NoHist

InitSpecPop == InitPop /\ PushIdle /\ DiscIdle

SpecPop == InitSpecPop /\ [][NextPop]_vars

\* the event loop keeps running: a QuitMsg that was sent ends the program,
\* and a blake3FetchedMsg that was sent is handled; nothing else is assumed:
\* the user is under no obligation to press a key, and p.Run() need not fail
\* Progress is looked at for the sessions that find no final file on disk:
\* an old final file matters to main's prompt only, and the engine runs the
\* same with it.
InitFairPop == InitSpecPop /\ ~fileExists(finalFile)

FairPop ==
    /\ InitFairPop
    /\ [][NextPop]_vars
    /\ WF_vars(RunQuit)
    /\ WF_vars(Update_blake3FetchedMsg)

(***************************************************************************)
(* The sender's specification.                                             *)
(***************************************************************************)
NextPush ==
    \E t \in Threads : HandlerStart(t) \/ getBlake3(t) \/ HandlerRespond(t)

InitSpecPush == InitPush /\ PopIdle /\ DiscIdle

SpecPush == InitSpecPush /\ [][NextPush]_vars

\* goroutines that can run do run: a handler inside getBlake3 or writing its
\* response is eventually scheduled
FairPush ==
    SpecPush /\ \A t \in Threads : WF_vars(getBlake3(t) \/ HandlerRespond(t))

(***************************************************************************)
(* The specifications of discovery: the functions on the inputs of the     *)
(* bounded sets.                                                           *)
(***************************************************************************)
InitSpecUser ==
    /\ PushIdle /\ PopIdle /\ IPIdle
    /\ entryText \in Texts
    /\ userRet = NoName

NextUser == CallGetUserName

SpecUser == InitSpecUser /\ [][NextUser]_vars

InitSpecIP ==
    /\ PushIdle /\ PopIdle /\ UserIdle
    /\ ipsIn \in UNION {[1..n -> InputIPs] : n \in 0..MaxIPs}
    /\ localIfaces \in LocalIfaces
    /\ ipRet = NoIP

NextIP == CallFindMatchingIP

SpecIP == InitSpecIP /\ [][NextIP]_vars

(***************************************************************************)
(* Claims about the sender's hash cache.                                   *)
(***************************************************************************)
computing(p) == {t \in Threads : pc[t] \in {"open", "read"} /\ lv[t].path = p}
inGetBlake3(t) == pc[t] \notin {"idle", "respond"}
\* the handler found a computation in flight: it holds another handler's cond
sawInFlight(t) == lv[t].c \notin {NoCond, NewCond(t)}

\* C6: single-flight.  For any number of concurrent getBlake3 calls for one
\* path the hash computation is started at most once, it has been started once
\* as soon as any call got past the cache check, and two computations for the
\* path never run at the same time.
C6_SingleFlight ==
    \A p \in Paths :
        /\ starts[p] <= 1
        /\ Cardinality(computing(p)) <= 1
        /\ (\E t \in Threads : lv[t].path = p /\ pc[t] \notin {"idle", "lock", "check"})
              => starts[p] = 1

\* C6 witness: one handler is hashing while two others wait for it
C6_Witness ==
    \E p \in Paths :
        /\ computing(p) # {}
        /\ Cardinality({t \in Threads : pc[t] = "parked" /\ lv[t].path = p}) >= 2

\* C7 as claimed: a digest request that finds a computation in flight is never
\* parked, and what it answers is the pending outcome, status 503 with no body.
C7_PendingNotBlocking ==
    \A t \in Threads :
        /\ pc[t] # "parked"
        /\ (pc[t] = "respond" /\ sawInFlight(t))
              => digestResponse(ret[t]) = [status |-> 503, body |-> EmptyStr]

\* C8: once a result is stored for a path it is never overwritten or removed,
\* no computation is started for that path any more, and every getBlake3 call
\* that returns afterwards returns the stored result.
C8_StoredOnce ==
    [][\A p \in Paths :
          hashCache[p] # NoResult =>
              /\ hashCache'[p] = hashCache[p]
              /\ starts'[p] = starts[p]
              /\ \A t \in Threads :
                    (lv[t].path = p /\ ret'[t] # ret[t] /\ ret'[t] # NoResult)
                        => ret'[t] = hashCache[p]]_vars

\* C8 witness: a call made after the result was stored has returned it from
\* the cache (it neither computed nor waited)
C8_Witness ==
    \E t \in Threads :
        /\ pc[t] = "respond"
        /\ lv[t].c = NoCond
        /\ ret[t] = hashCache[lv[t].path]
        /\ starts[lv[t].path] = 1

\* C9 as claimed: when the file could not be opened, or a read failed while it
\* was hashed, what the cache publishes is an error, and every caller (the
\* computing one, the waiters, later ones) gets an error.
C9_FailurePublishesError ==
    \A p \in Paths :
        fault[p] # "none" =>
            /\ hashCache[p] # NoResult => hashCache[p].err # "nil"
            /\ \A t \in Threads :
                  (lv[t].path = p /\ ret[t] # NoResult) => ret[t].err # "nil"

\* C10: every caller parked in c.Wait() is eventually released, and what it
\* then returns is the result the computing caller stored.
C10_WaitersReleased ==
    \A t \in Threads :
        (pc[t] = "parked") ~>
            (/\ pc[t] = "respond"
             /\ t \in blocked
             /\ hashCache[lv[t].path] # NoResult
             /\ ret[t] = hashCache[lv[t].path])

\* C10 witness: a caller that was parked has returned the stored result
C10_Witness ==
    \E t \in Threads :
        /\ pc[t] = "respond"
        /\ t \in blocked
        /\ ret[t] = hashCache[lv[t].path]

(***************************************************************************)
(* Claims about the receiver's download engine.                            *)
(***************************************************************************)
IsPrefix(p, s) == Len(p) <= Len(s) /\ Prefix(s, Len(p)) = p
\* p.Run() has returned: the session is over
sessionOver == mainPc = "exited" /\ outcome \in {"success", "fatal"}
\* every answer came from the sender, no I/O failed and the user pressed no key
undisturbed == ~hist.foreign /\ ~hist.fault /\ keys = 0

\* C1: the session ends in success (p.Run() returns without an error a model
\* with a nil error) only after end-of-stream, a successful rename, a received
\* remote digest, a hash of the final file up to end-of-file and a computed
\* digest equal to the remote one; every other end of the session carries an
\* error, the model's or p.Run()'s own.
C1_SuccessOnlyVerified ==
    sessionOver =>
        /\ outcome = "success" <=> (m.err = NilErr /\ ~hist.runErr)
        /\ outcome = "success" =>
              /\ hist.eos /\ hist.renamed /\ hist.gotDigest /\ hist.hashedEOF
              /\ hist.compared
              /\ hist.localHash = hist.remoteHash
              /\ fileExists(finalFile)
              /\ hist.localHash = Blake3Hex(finalFile.data)

\* C1 witness: a session has ended in success
C1_Witness == sessionOver /\ outcome = "success" /\ hist.offset > 0

\* C2 as claimed: when Update compares a computed digest that differs from
\* the remote one it deletes the final file and records the mismatch error,
\* which holds the expected and the computed digest, and quits; afterwards
\* the final file does not exist under the final name and the session ends
\* with an error, which is the mismatch error unless a cancel key was handled
\* as well.
C2_MismatchDeletes ==
    /\ [][(hist'.compared /\ ~hist.compared /\ hist'.localHash # hist'.remoteHash)
            => /\ ~fileExists(finalFile')
               /\ m'.err.kind = "mismatch"
               /\ m'.err.expected = hist'.remoteHash
               /\ m'.err.got = hist'.localHash
               /\ BagIn(QuitMsg, msgs')]_vars
    /\ []((hist.compared /\ hist.localHash # hist.remoteHash)
            => /\ ~fileExists(finalFile)
               /\ m.err # NilErr
               /\ sessionOver => outcome = "fatal"
               /\ keys = 0 => /\ m.err.kind = "mismatch"
                              /\ m.err.expected = hist.remoteHash
                              /\ m.err.got = hist.localHash)

\* C3 as claimed: when the engine starts with a resume offset > 0 and the
\* answer has status 200 with the whole file, the count of bytes restarts
\* from 0 (it never exceeds what this answer has delivered) and the file that
\* is renamed is the source: the body is not appended to the old partial bytes.
C3_RangeDowngradeRestarts ==
    (hist.offset > 0 /\ hist.status = 200 /\ (m.Body \/ m.done))
        => /\ m.downloadedBytes <= Len(src) - Len(body.rem)
           /\ (hist.renamed /\ fileExists(finalFile)) => finalFile.data = src

\* C4 as claimed: a session that resumes at offset k, the partial file holding
\* the first k bytes of the source, against the sender (which honours Range),
\* ends in success with a final file equal to the source.
C4_ResumeIdempotent ==
    (sessionOver /\ undisturbed /\ hist.offset > 0
        /\ IsPrefix(hist.part0.data, src))
        => /\ outcome = "success"
           /\ finalFile = File(src)

\* C5 as claimed: a download from the sender that starts at offset 0 with no
\* partial and no final file ends in success with a final file equal to the
\* source and a computed digest equal to the sender's.
C5_RoundTrip ==
    (sessionOver /\ undisturbed /\ hist.offset = 0
        /\ ~fileExists(hist.part0) /\ ~fileExists(hist.final0))
        => /\ outcome = "success"
           /\ finalFile = File(src)
           /\ hist.localHash = Blake3Hex(src)

(***************************************************************************)
(* Claims about the digest fetch, the cancel key, main's reconciliation of *)
(* the files on disk, and the rate timer.                                  *)
(***************************************************************************)
\* the part of a bag whose elements have one of the types
Only(bag, types) == [e \in {x \in DOMAIN bag : x.type \in types} |-> bag[e]]
Count(bag, types) == BagCardinality(Only(bag, types))
\* the digest fetch loop: what is under way for it
fetchLoop ==
    Count(cmds, {"fetchBlake3"})
        + Count(msgs, {"blake3PendingMsg", "blake3RetryFetchMsg", "blake3FetchedMsg"})
\* a remote digest has been accepted and handed to the local hash
accepted == {c.remoteHash : c \in {x \in BagToSet(cmds) : x.type = "computeBlake3"}}
\* the engine is running and has neither failed nor finished
nonTerminal == mainPc = "run" /\ m.err = NilErr /\ ~BagIn(QuitMsg, msgs)

\* C11 as claimed: a remote digest that the engine accepts (hands to the
\* local hash, compares with the local digest) is 64 characters long and all
\* of its characters are hex digits.
C11_DigestIsHex ==
    /\ \A h \in accepted : h.len = DigestLen /\ h.hex
    /\ m.verifying => m.blake3RemoteHash.hex
    /\ hist.compared => hist.remoteHash.hex

\* C12: a handled pending answer schedules exactly one retry message and no
\* command, a handled retry message issues exactly one digest fetch, at most
\* one step of the fetch loop is under way at any time, and an accepted
\* answer that has been delivered leads to the local hash being started,
\* unless the session ends first.
C12_DigestPolling ==
    /\ [][mainPc' = "run" =>
          /\ Count(msgs', {"blake3PendingMsg"}) < Count(msgs, {"blake3PendingMsg"})
             => /\ Count(msgs', {"blake3RetryFetchMsg"})
                      = Count(msgs, {"blake3RetryFetchMsg"}) + 1
                /\ cmds' = cmds
                /\ m' = m
          /\ Count(msgs', {"blake3RetryFetchMsg"}) < Count(msgs, {"blake3RetryFetchMsg"})
             => /\ Count(cmds', {"fetchBlake3"}) = Count(cmds, {"fetchBlake3"}) + 1
                /\ m' = m]_vars
    /\ [](fetchLoop <= 1)
    /\ (\E x \in BagToSet(msgs) : x.type = "blake3FetchedMsg" /\ x.err = NilErr)
          ~> (accepted # {} \/ mainPc = "exited")

\* C12 witness: the server has answered pending and the retry is scheduled
C12_Witness ==
    /\ mainPc = "run"
    /\ hist.digestSrv = "pending"
    /\ Count(msgs, {"blake3RetryFetchMsg"}) = 1

\* C13: while the engine runs, whatever its phase, a cancel key can be
\* handled; handling it records the "aborted" error and quits; from then on
\* the session has an error, and it ends Failed (the cancel key is never
\* taken back, so "a key was handled leads to Failed" is: again and again,
\* no key was handled or the session has ended Failed).
C13_CancelAnywhere ==
    /\ []((mainPc = "run" /\ keys < MaxKeys) => ENABLED Update_KeyMsg)
    /\ [][keys' # keys => /\ m'.err = Err("aborted", "")
                          /\ BagIn(QuitMsg, msgs')]_vars
    /\ [](keys > 0 => /\ m.err # NilErr
                      /\ mainPc = "exited" => outcome = "fatal")
    /\ []<>(keys = 0 \/ (mainPc = "exited" /\ outcome = "fatal"))

\* C13 witness: a session cancelled while the final file was being hashed has
\* ended Failed
C13_Witness ==
    /\ sessionOver /\ outcome = "fatal"
    /\ keys > 0
    /\ m.verifying
    /\ m.err = Err("aborted", "")

\* C14 as claimed: once a cancel key has been handled neither the response
\* body nor the file opened for hashing is open.
C14_CancelCloses ==
    keys > 0 => ~body.open /\ ~hfile.open

\* C15 as claimed: when no final file exists main shows no prompt, starts
\* the engine with an offset equal to the length of the partial file (0 when
\* there is none), asks for the file from that offset, and deletes nothing.
C15_NoFinalReconciliation ==
    [][(mainPc = "start" /\ mainPc' # "start" /\ ~fileExists(finalFile))
        => LET off == IF fileExists(partFile) THEN Len(partFile.data) ELSE 0
           IN  /\ mainPc' = "run"
               /\ ~hist'.prompted
               /\ hist'.offset = off
               /\ m'.downloadedBytes = off
               /\ cmds' = One([type |-> "requestURL", off |-> off])
               /\ partFile' = partFile
               /\ finalFile' = finalFile]_vars

\* C16: when the final file exists, force is not set and the user declines,
\* the program has ended and nothing has happened: both files are as they
\* were, no request was made, no command or message exists.
C16_DeclineNoEffect ==
    outcome = "declined" =>
        /\ mainPc = "exited"
        /\ fileExists(hist.final0) /\ ~hist.force /\ hist.prompted
        /\ finalFile = hist.final0
        /\ partFile = hist.part0
        /\ cmds = EmptyBag /\ msgs = EmptyBag
        /\ hist.fileSrv = "" /\ hist.digestSrv = ""
        /\ body = NoBody /\ hfile = NoBody
        /\ m = ZeroModel

\* C16 witness: the user has declined while a partial file was there too
C16_Witness ==
    /\ outcome = "declined"
    /\ fileExists(partFile) /\ fileExists(finalFile)

\* C17 as claimed: when the final file exists and there is no partial file,
\* force shows no prompt, and once the engine runs (force or confirmation) it
\* starts at offset 0 and the old final file is gone: a final file exists only
\* after the rename.
C17_FinalDeletedFirst ==
    (mainPc = "run" /\ fileExists(hist.final0) /\ ~fileExists(hist.part0))
        => /\ hist.force => ~hist.prompted
           /\ hist.offset = 0
           /\ ~hist.renamed => ~fileExists(finalFile)

\* C18 as claimed: when both files exist and force is not set, after a choice
\* other than abort at most one of the two files exists.
C18_AtMostOneFileLeft ==
    (mainPc = "run" /\ fileExists(hist.final0) /\ fileExists(hist.part0)
        /\ ~hist.force)
        => ~(fileExists(finalFile) /\ fileExists(partFile))

\* C19 as claimed: when both files exist and force is set, both are discarded
\* and the download starts at offset 0, with a request without Range.
C19_ForceDiscardsBoth ==
    (mainPc = "run" /\ fileExists(hist.final0) /\ fileExists(hist.part0)
        /\ hist.force)
        => /\ hist.offset = 0
           /\ \A c \in BagToSet(cmds) : c.type = "requestURL" => c.off = 0
           /\ ~hist.renamed => ~fileExists(finalFile)

\* C20 as claimed: whenever the session is not terminal a tick of the rate
\* timer is scheduled.
C20_TickAlwaysPending ==
    nonTerminal => BagIn(tickSpeed, msgs)

(***************************************************************************)
(* The response to the file request, the digest fetch, cancellation.       *)
(***************************************************************************)
\* C21 as claimed: when the status of the file response is neither 200 nor
\* 206, the session fails with a protocol violation and no byte of that
\* response's body is written to the partial file: the count of downloaded
\* bytes stays at the resume offset, nothing is renamed, and the engine does
\* not go on to stream without an error.
C21_BadStatusFails ==
    hist.status \notin {0, 200, 206}
        => /\ m.downloadedBytes = hist.offset
           /\ ~hist.renamed
           /\ ((m.Body \/ m.done) => m.err # NilErr)

\* the answer of the last digest request that was answered
lastDigestAnswer == {a \in DigestAnswers : a.srv = hist.digestSrv}

\* C22: the digest fetch maps a 503 answer to "pending" and never to a
\* failure, a 200 answer with a body of 64 characters (once trimmed) to that
\* digest, and every other status to a digest-fetch failure, which is
\* terminal: the error is recorded, the engine quits and main never reports
\* success.
C22_DigestFetchMapping ==
    /\ \A e \in BagToSet(msgs) :
          /\ e.type = "blake3PendingMsg"
                => \E a \in lastDigestAnswer : a.status = 503
          /\ (e.type = "blake3FetchedMsg" /\ e.err = NilErr)
                => \E a \in lastDigestAnswer :
                      /\ a.status = 200
                      /\ e.remoteHash = stringsTrimSpace(a.text)
                      /\ e.remoteHash.len = DigestLen
          /\ (e.type = "blake3FetchedMsg" /\ e.err # NilErr /\ e.err.detail # "transport")
                => \E a \in lastDigestAnswer :
                      /\ a.status # 503
                      /\ a.status = 200 => stringsTrimSpace(a.text).len # DigestLen
    /\ \A a \in lastDigestAnswer :
          /\ a.status = 503
                => \/ m.err = NilErr
                   \/ m.err.kind = "aborted"
                   \/ hist.fault
          /\ a.status \notin {200, 503}
                => /\ \/ \E e \in BagToSet(msgs) :
                            e.type = "blake3FetchedMsg" /\ e.err = Err("fetch", "status")
                      \/ m.err # NilErr
                      \/ hist.runErr
                   /\ accepted = {}
                   /\ ~m.verifying
                   /\ outcome # "success"
    /\ (m.err.kind = "blake3 fetch" /\ mainPc = "run") => BagIn(QuitMsg, msgs)

\* an error status was answered to the digest request, the failure was
\* handled and main has ended with it
C22_Witness ==
    /\ hist.digestSrv = "error"
    /\ m.err = Err("blake3 fetch", "status")
    /\ mainPc = "exited"
    /\ outcome = "fatal"

\* C23 as claimed: once a cancel has been handled, the error of the session
\* is the cancellation, whatever event is delivered after it.
C23_CancelCauseKept ==
    keys > 0 => m.err = Err("aborted", "")

(***************************************************************************)
(* The order of the phases.                                                *)
(***************************************************************************)
\* the phase a command or a message of the transfer chain belongs to:
\* 1 requesting, 2 streaming, 3 renaming, 4 fetching the digest or pending,
\* 5 computing the digest, 6 verifying; 0 for the timer and the quit message
phaseOf(t) ==
    CASE t \in {"requestURL", "requestURLGetBodyMsg"} -> 1
      [] t \in {"readChunk", "requestURLReceivedMsg", "requestURLDoneMsg"} -> 2
      [] t \in {"rename", "fileRenamedMsg"} -> 3
      [] t \in {"fetchBlake3", "blake3PendingMsg", "blake3RetryFetchMsg",
                "blake3FetchedMsg"} -> 4
      [] t \in {"computeBlake3", "blake3StartMsg", "readBlake3Chunk",
                "blake3ChunkReadMsg"} -> 5
      [] t \in {"blake3ComputedMsg"} -> 6
      [] OTHER -> 0

\* the phases of what is under way
phasesNow == {phaseOf(x.type) : x \in BagToSet(cmds) \cup BagToSet(msgs)} \ {0}

\* the phase of the session: 0 before the engine starts, 7 once the chain has
\* ended (done or failed), 8 once main has ended
phase ==
    IF mainPc = "exited" THEN 8
    ELSE IF mainPc # "run" THEN 0
    ELSE IF phasesNow = {} THEN 7
    ELSE CHOOSE ph \in phasesNow : \A q \in phasesNow : q <= ph

\* C26: the phases are entered in the order requesting, streaming, renaming,
\* fetching the digest (alternating with pending), computing the digest,
\* verifying, done or failed: the phase never goes back, so that no phase but
\* fetching/pending is entered twice; the session is in one phase at a time;
\* the rename is issued only after end-of-stream, the digest fetch only after
\* a successful rename, the local hash only after a digest was accepted, the
\* comparison only after the local file was hashed to its end.
C26_PhaseOrder ==
    /\ [][phase' >= phase]_vars
    /\ [](Cardinality(phasesNow) <= 1)
    /\ [](3 \in phasesNow => hist.eos)
    /\ [](4 \in phasesNow => hist.renamed)
    /\ [](5 \in phasesNow => hist.gotDigest)
    /\ [](\A e \in BagToSet(msgs) :
              (e.type = "blake3ComputedMsg" /\ e.err = NilErr) => hist.hashedEOF)

\* a session went through every phase and main has ended with success
C26_Witness ==
    /\ mainPc = "exited"
    /\ outcome = "success"
    /\ hist.eos /\ hist.renamed /\ hist.gotDigest /\ hist.hashedEOF /\ hist.compared

(***************************************************************************)
(* Streaming.                                                              *)
(***************************************************************************)
\* body reads under way: the read commands, and their chunks and
\* end-of-stream messages not yet handled
readsInFlight ==
    Count(cmds, {"readChunk"})
        + Count(msgs, {"requestURLReceivedMsg", "requestURLDoneMsg"})

\* the chunks that were read and wait to be appended, in one sequence
chunkWaiting ==
    LET ws == {e \in BagToSet(msgs) : e.type = "requestURLReceivedMsg"}
    IN  IF ws = {} THEN <<>> ELSE (CHOOSE e \in ws : TRUE).chunk

\* the bodies the server of the file request may have answered with
bodiesAnswered ==
    {a.rsp.data : a \in {x \in FileAnswers(rangeOf(hist.req)) : x.srv = hist.fileSrv}}

\* C27: streaming is strictly sequential. At most one body read is under way
\* (command or unhandled result); no read runs while a chunk waits to be
\* appended, so the chunk buffer is not overwritten under it; a read is
\* issued only by the handler of the response or by the handler that has
\* appended the chunk before it; and the chunks are appended in the order
\* they were read: while the engine runs and no I/O has failed, the partial file is what it was
\* at the start followed by the bytes of the body read so far less the
\* chunk waiting.
C27_SequentialStreaming ==
    /\ [](readsInFlight <= 1)
    /\ [][Count(msgs, {"requestURLReceivedMsg"}) > 0
            => /\ body' = body
               /\ Count(cmds', {"readChunk"}) > Count(cmds, {"readChunk"})
                     => partFile'.data = partFile.data \o chunkWaiting]_vars
    /\ []((mainPc = "run" /\ hist.fileSrv # "" /\ ~hist.renamed /\ ~hist.fault)
            => \E d \in bodiesAnswered :
                  partFile.data \o chunkWaiting \o body.rem = hist.part0.data \o d)

\* a chunk was appended, and the chunk read after it waits to be appended
C27_Witness ==
    /\ m.downloadedBytes > hist.offset
    /\ chunkWaiting # <<>>
    /\ hist.status \in {200, 206}
    /\ m.err = NilErr

(***************************************************************************)
(* The chain of tasks.                                                     *)
(***************************************************************************)
\* what is neither the rate timer nor a UI event
chainTypes ==
    {"requestURL", "requestURLGetBodyMsg", "readChunk", "requestURLReceivedMsg",
     "requestURLDoneMsg", "requestURLPanicMsg", "rename", "fileRenamedMsg",
     "fetchBlake3", "blake3PendingMsg", "blake3RetryFetchMsg", "blake3FetchedMsg",
     "computeBlake3", "blake3StartMsg", "readBlake3Chunk", "blake3ChunkReadMsg",
     "blake3ComputedMsg"}

\* the tasks of the transfer chain under way and their events not yet handled
chainOutstanding == Count(cmds, chainTypes) + Count(msgs, chainTypes)

\* C28: every task of the chain delivers exactly one event (a command that
\* runs leaves the bag and one message enters it); at most one task or event
\* of the transfer chain is outstanding at any time; the only other things
\* under way are the rate timer, of which there is at most one, and the UI
\* events (the quit messages of key presses and of the handlers).
C28_OneTaskOutstanding ==
    /\ [][(BagCardinality(cmds') < BagCardinality(cmds) /\ mainPc' = "run")
            => /\ BagCardinality(cmds') = BagCardinality(cmds) - 1
               /\ BagCardinality(msgs') = BagCardinality(msgs) + 1
               /\ Count(msgs', chainTypes) = Count(msgs, chainTypes) + 1]_vars
    /\ [](chainOutstanding <= 1)
    /\ [](Count(cmds, chainTypes) = BagCardinality(cmds))
    /\ [](Count(msgs, {"speedTickMsg"}) <= 1)
    /\ [](BagCardinality(msgs)
            = Count(msgs, chainTypes) + Count(msgs, {"speedTickMsg", "QuitMsg"}))

\* a hash read is under way alongside the rate timer and the quit message of
\* a key press
C28_Witness ==
    /\ Count(cmds, {"readBlake3Chunk"}) = 1
    /\ chainOutstanding = 1
    /\ BagIn(tickSpeed, msgs)
    /\ BagIn(QuitMsg, msgs)
    /\ keys > 0

(***************************************************************************)
(* The file request and the total size.                                    *)
(***************************************************************************)
\* C29: the file request carries Range: bytes=<offset>- exactly when the
\* resume offset is greater than 0, the <offset> of the header being the
\* resume offset and the length of the partial file when main started, and
\* it always carries the header with the local username.
C29_RangeIffResuming ==
    hist.fileSrv # ""
        => /\ hist.req.hasRange <=> hist.offset > 0
           /\ hist.req.hasRange
                 => /\ hist.req.start = hist.offset
                    /\ fileExists(hist.part0)
                    /\ hist.req.start = Len(hist.part0.data)
           /\ hist.req.user = username

\* a request was answered that asked for the bytes after a partial file of
\* one byte
C29_Witness ==
    /\ hist.fileSrv = "sender"
    /\ hist.req = [hasRange |-> TRUE, start |-> 1, user |-> username]
    /\ hist.part0 # NoFile

\* C30: once the response is handled, totalBytes is the content length plus
\* the resume offset when resuming (offset > 0) and the status is 206, and
\* the content length alone otherwise.
C30_TotalBytes ==
    (hist.fileSrv # "" /\ (m.Body \/ m.done))
        => \E d \in bodiesAnswered :
              m.totalBytes = IF hist.offset > 0 /\ hist.status = 206
                             THEN Len(d) + hist.offset
                             ELSE Len(d)

\* the response to a resumed request was handled: 206 with the rest of a
\* file of two bytes
C30_Witness ==
    /\ m.Body
    /\ hist.offset = 1
    /\ hist.status = 206
    /\ Len(src) = 2
    /\ m.totalBytes = 2

(***************************************************************************)
(* Discovery.                                                              *)
(***************************************************************************)
\* the key and the value of a TXT record: what is before and after its
\* first "="
hasKey(rec) == \E i \in 1..Len(rec) : rec[i] = "="
firstEq(rec) ==
    CHOOSE i \in 1..Len(rec) : rec[i] = "=" /\ \A j \in 1..(i - 1) : rec[j] # "="
keyOf(rec) == Prefix(rec, firstEq(rec) - 1)
valueOf(rec) == Suffix(rec, firstEq(rec))
\* the records of the entry whose key is user
userRecords ==
    {i \in 1..Len(entryText) : hasKey(entryText[i]) /\ keyOf(entryText[i]) = <<"user">>}

\* C24 as claimed: GetUserName returns the value of the first TXT record
\* whose key is user, and an error when no record has the key user.
C24_FirstUserRecord ==
    userRet # NoName
        => IF userRecords = {}
           THEN userRet.err # "nil"
           ELSE LET i == CHOOSE e \in userRecords : \A o \in userRecords : e <= o
                IN  userRet = [name |-> valueOf(entryText[i]), err |-> "nil"]

\* the addresses of the input list that lie in the network of an address of
\* a local interface
reachable ==
    {k \in 1..Len(ipsIn) :
        \E i \in 1..Len(localIfaces.ifaces) :
            /\ ~localIfaces.ifaces[i].addrsErr
            /\ \E j \in 1..Len(localIfaces.ifaces[i].addrs) :
                  LET ifaceNet == ParseCIDR(localIfaces.ifaces[i].addrs[j])
                  IN  ifaceNet.err = "nil" /\ Contains(ifaceNet, ipsIn[k])}

\* C25 as claimed: FindMatchingIP returns the first address of the input
\* list, in the order of the list, that lies in the network of a local
\* interface address, and an error when none does.
C25_FirstInListOrder ==
    (ipRet # NoIP /\ localIfaces.err = "nil")
        => IF reachable = {}
           THEN ipRet.err # "nil"
           ELSE LET k == CHOOSE e \in reachable : \A o \in reachable : e <= o
                IN  ipRet = [ip |-> ipString(ipsIn[k]), err |-> "nil"]

(***************************************************************************)
(* Errors of the rename and of the transport; the rate timer.              *)
(***************************************************************************)
\* C31: the rename is attempted only on end-of-stream of the body, never
\* after a read or a write error; when the rename fails no digest fetch is
\* issued, the handler records the rename error and quits, and main ends
\* with it (unless the user's cancel comes in between).
C31_RenameOnlyOnEOS ==
    /\ Count(cmds, {"rename"}) > 0 => hist.eos /\ ~hist.fault
    /\ Count(msgs, {"fileRenamedMsg"}) > 0 => hist.eos
    /\ ~hist.renamed => (phasesNow \cap {4, 5, 6} = {} /\ outcome # "success")
    /\ (mainPc = "run" /\ hist.eos /\ ~hist.renamed /\ phasesNow = {})
          => /\ m.err.kind \in {"rename", "aborted"}
             /\ BagIn(QuitMsg, msgs)
    /\ (mainPc = "exited" /\ keys = 0 /\ hist.eos /\ ~hist.renamed /\ ~hist.runErr)
          => outcome = "fatal" /\ m.err = Err("rename", "")

\* the body ended, the rename of an existing partial file failed, and main
\* has ended with the rename error
C31_Witness ==
    /\ mainPc = "exited"
    /\ outcome = "fatal"
    /\ m.err = Err("rename", "")
    /\ hist.eos /\ hist.fault /\ ~hist.renamed
    /\ fileExists(partFile)

\* C32: a transport error (the request cannot be sent, a read of the body
\* fails) ends the session with that error: its message is the last of the
\* chain, the handler records it and quits, main never reports success, and
\* no file request is issued but the first one.
C32_TransportErrorTerminal ==
    /\ \A e \in BagToSet(msgs) :
          e.type = "requestURLPanicMsg" => e.err.kind = "transport" /\ hist.fault
    /\ Count(cmds, {"requestURL"}) > 0
          => hist.fileSrv = "" /\ ~hist.fault /\ m.downloadedBytes = hist.offset
    /\ m.err.kind = "transport"
          => /\ chainOutstanding = 0
             /\ mainPc = "run" => BagIn(QuitMsg, msgs)
             /\ outcome # "success"
             /\ ~hist.eos
    /\ (mainPc = "exited" /\ keys = 0 /\ hist.fault /\ ~hist.eos /\ m.err.kind # "write"
            /\ ~hist.runErr)
          => outcome = "fatal" /\ m.err.kind = "transport"

\* a read of the body failed after a chunk was appended, and main has ended
\* with the transport error
C32_Witness ==
    /\ mainPc = "exited"
    /\ outcome = "fatal"
    /\ m.err = Err("transport", "read")
    /\ m.downloadedBytes > hist.offset

\* a step that handles a tick: the tick leaves the messages, or is replaced
\* by the next one
tickStep ==
    /\ mainPc = "run" /\ mainPc' = "run"
    /\ BagIn(tickSpeed, msgs)
    /\ msgs' = msgs \/ msgs' = msgs (-) One(tickSpeed)

\* C33: handling a tick of the rate timer leaves the transfer as it is: the
\* counters, the flags, the error, the open body and file, the files on disk
\* and the commands and messages of the transfer chain are unchanged.
C33_TickFrame ==
    [][tickStep => /\ m' = m
                   /\ cmds' = cmds
                   /\ Only(msgs', chainTypes) = Only(msgs, chainTypes)
                   /\ body' = body /\ hfile' = hfile
                   /\ partFile' = partFile /\ finalFile' = finalFile
                   /\ hist' = hist]_vars

\* a tick was handled while the rename was under way: no tick is left
C33_Witness ==
    /\ mainPc = "run"
    /\ Count(cmds, {"rename"}) = 1
    /\ ~BagIn(tickSpeed, msgs)
    /\ m.err = NilErr

(***************************************************************************)
(* The counters; what happens after an error.                              *)
(***************************************************************************)
\* the chunk of the final file that was read and waits to be hashed
hashWaiting ==
    LET ws == {e \in BagToSet(msgs) : e.type = "blake3ChunkReadMsg"}
    IN  IF ws = {} THEN <<>> ELSE (CHOOSE e \in ws : TRUE).chunk

\* C34: the local hash has its own counter. While the engine hashes, the
\* counter plus the chunk waiting plus what is left to read is the size of
\* the final file (so it starts at 0, grows by the length of each chunk and
\* is the size of the file at end-of-file); bytesTransferred and the contents
\* of the final file stay what the streaming left: the partial file with the
\* body appended, and the offset plus the length of the body; a read error
\* closes the file, is recorded and ends the session.
C34_HashCounter ==
    /\ (mainPc = "run" /\ m.verifying)
          => /\ fileExists(finalFile)
             /\ m.blake3ReadBytes + Len(hashWaiting) + Len(hfile.rem)
                    = Len(finalFile.data)
             /\ m.blake3TotalBytes = Len(finalFile.data)
    /\ \A e \in BagToSet(msgs) :
          (e.type = "blake3ComputedMsg" /\ e.err = NilErr)
              => m.blake3ReadBytes = Len(finalFile.data)
    /\ (hist.renamed /\ fileExists(finalFile))
          => \E d \in bodiesAnswered :
                /\ finalFile.data = hist.part0.data \o d
                /\ m.downloadedBytes = hist.offset + Len(d)
    /\ m.err.kind = "hash read"
          => /\ ~hfile.open
             /\ mainPc = "run" => BagIn(QuitMsg, msgs)
             /\ outcome # "success"

\* a final file of two bytes was hashed to its end: the local digest waits
\* to be compared
C34_Witness ==
    /\ Count(msgs, {"blake3ComputedMsg"}) = 1
    /\ m.blake3ReadBytes = 2
    /\ m.downloadedBytes = 2
    /\ hist.hashedEOF

\* C35 as claimed: while the engine requests or streams, bytesTransferred
\* is the length of the partial file (0 when there is none): it starts at
\* the length the partial file had and grows with each chunk appended.
C35_CounterIsPartLength ==
    (mainPc = "run" /\ phase \in {1, 2})
        => /\ m.downloadedBytes = IF fileExists(partFile) THEN Len(partFile.data) ELSE 0
           /\ m.downloadedBytes >= hist.offset

\* C36 as claimed: once the session has recorded an error, no event handled
\* afterwards appends to the partial file, renames it, deletes the final
\* file or starts a new task.
C36_NoEffectAfterError ==
    [][(mainPc = "run" /\ m.err # NilErr)
          => /\ partFile' = partFile
             /\ finalFile' = finalFile
             /\ BagCardinality(cmds') <= BagCardinality(cmds)]_vars

(***************************************************************************)
(* The files after a failure; the sender's maps; the username.             *)
(***************************************************************************)
\* C37: the partial file is created only when the first chunk is written:
\* only the step that handles a chunk of at least one byte makes a partial
\* file that did not exist, and such a file holds counted bytes unless that
\* write failed. So when the body of the answer is empty and there was no
\* partial file, the rename is tried on a file that does not exist: nothing
\* is renamed, main never reports success, and without a key press or an I/O
\* failure it ends with the rename error.
C37_EmptySourceFailsRename ==
    /\ [][(~fileExists(partFile) /\ fileExists(partFile'))
            => \E msg \in BagToSet(msgs) :
                  /\ msg.type = "requestURLReceivedMsg"
                  /\ Len(msg.chunk) > 0
                  /\ CopiesIn(msg, msgs') < CopiesIn(msg, msgs)]_vars
    /\ []((mainPc # "start" /\ fileExists(partFile) /\ ~fileExists(hist.part0))
            => m.downloadedBytes > 0 \/ hist.fault)
    /\ []((mainPc # "start" /\ ~fileExists(hist.part0) /\ hist.fileSrv # ""
              /\ bodiesAnswered = {<<>>})
            => /\ ~fileExists(partFile)
               /\ ~hist.renamed
               /\ outcome # "success"
               /\ (mainPc = "exited" /\ keys = 0 /\ ~hist.fault)
                     => outcome = "fatal" /\ m.err = Err("rename", ""))

\* the sender's file is empty, there was no partial file, and main has ended
\* with the rename error
C37_Witness ==
    /\ mainPc = "exited"
    /\ outcome = "fatal"
    /\ m.err = Err("rename", "")
    /\ src = <<>>
    /\ hist.fileSrv = "sender"
    /\ ~fileExists(hist.part0)
    /\ hist.eos /\ ~hist.fault /\ keys = 0

\* C38: the engine deletes the final file only on a digest mismatch. The
\* file is removed only after a comparison of two digests that differ; until
\* the rename the final file is what it was; after a rename, whatever else
\* ends the session, the downloaded file stays under the final name.
C38_DeletedOnlyOnMismatch ==
    /\ hist.removed => hist.compared /\ hist.localHash # hist.remoteHash
    /\ (mainPc # "start" /\ ~hist.renamed) => finalFile = hist.final0
    /\ (hist.renamed /\ ~hist.removed)
          => /\ fileExists(finalFile)
             /\ \E d \in bodiesAnswered : finalFile.data = hist.part0.data \o d

\* the digest fetch failed after the rename and main has ended: the
\* downloaded file is still there
C38_Witness ==
    /\ mainPc = "exited"
    /\ outcome = "fatal"
    /\ m.err.kind = "blake3 fetch"
    /\ hist.renamed
    /\ fileExists(finalFile)

\* the callers that have installed a cond for p and not yet published
owners(p) ==
    {t \in Threads : pc[t] \in {"open", "read", "lock2", "publish"} /\ lv[t].path = p}
\* where a caller of getBlake3 holds hashMu
lockHeldAt == {"check", "waitUnlock", "woken", "publish"}

\* C39: for each path at most one of a cond entry and a result exists; a
\* cond entry exists exactly while one caller is computing (from the
\* installation of the cond to the publication of the result); the maps are
\* read and written only by the caller that holds hashMu.
C39_MapsUnderLock ==
    /\ [](\A p \in Paths : ~(hashCond[p] # NoCond /\ hashCache[p] # NoResult))
    /\ [](\A p \in Paths :
            Cardinality(owners(p)) = IF hashCond[p] # NoCond THEN 1 ELSE 0)
    /\ [](\A t \in Threads : pc[t] \in lockHeldAt <=> hashMu = t)
    /\ [][(hashCache' # hashCache \/ hashCond' # hashCond)
            => /\ hashMu \in Threads
               /\ pc[hashMu] \in {"check", "publish"}
               /\ pc'[hashMu] # pc[hashMu]]_vars

\* a computation is in flight, a second caller is parked on its cond
C39_Witness ==
    /\ hashCond["fn"] # NoCond
    /\ hashCache["fn"] = NoResult
    /\ \E t \in Threads : pc[t] = "read"
    /\ \E t \in Threads : pc[t] = "parked"

\* a record user=<name> as the sender announces it, for a name without "="
announced(text) ==
    /\ Len(text) = 1
    /\ Len(text[1]) >= 3
    /\ \A i \in 1..Len(text[1]) : text[1][i] = "=" <=> i = 2
    /\ text = announcedText(Suffix(text[1], 2))

\* C40 as claimed: for every username the sender announces as user=<name>,
\* GetUserName on that record returns <name>, also when the name has
\* characters other than letters, digits and underscore.
C40_UsernameRoundTrip ==
    (userRet # NoName /\ announced(entryText))
        => userRet = [name |-> Suffix(entryText[1], 2), err |-> "nil"]

====
